---- MODULE Spec2Model ----
(***************************************************************************)
(* next-jwt-refresh: the server functions refresh, retry, refreshAndRetry  *)
(* and fetchWithRefreshRetry, run by a number of calls that share one      *)
(* cookie store and one transport.                                         *)
(*                                                                         *)
(* A call advances from one await to the next in one step: the code        *)
(* between two awaits runs without interleaving, so each action below is   *)
(* the code from a resumption to the next suspension.  An awaited fetch    *)
(* and the awaited .json() of its response are one step: the call reads    *)
(* no shared state between the two.                                        *)
(*                                                                         *)
(* JavaScript values: a missing key or undefined is Absent, null is Null,  *)
(* a parsed JSON value is a record with the keys it has, a result object   *)
(* is a record with exactly the keys the code writes.                      *)
(***************************************************************************)
EXTENDS Integers, Sequences, FiniteSets, TLC

\* Number of call slots (calls that can be in flight at the same time).
NumCalls == 2

Calls == 1..NumCalls

\* ------------------------------------------------------------------------
\* JavaScript values

Absent == "<undefined>"
Null == "<null>"

\* Falsy strings: what !v and v || w test.
Falsy(v) == v \in {Absent, Null, ""}

\* a || b
Or(a, b) == IF Falsy(a) THEN b ELSE a

\* The result of response.json(): null, an object, or a body that does
\* not parse (json() rejects).
JsonNull == [json |-> "null"]
Unparseable == [json |-> "unparseable"]

\* obj[key] on a parsed object.
Get(obj, key) == IF key \in DOMAIN obj THEN obj[key] ELSE Absent

\* s.includes(sub)
Includes(s, sub) ==
    \E i \in 1..(Len(s) - Len(sub) + 1) : SubSeq(s, i, i + Len(sub) - 1) = sub

\* s.toLowerCase(), for the letters A-Z (the code never calls it: it is here
\* to state comparisons that ignore case).
UpperLetters == "ABCDEFGHIJKLMNOPQRSTUVWXYZ"
LowerLetters == "abcdefghijklmnopqrstuvwxyz"

LowerChar(ch) ==
    IF \E i \in 1..Len(UpperLetters) : SubSeq(UpperLetters, i, i) = ch
    THEN LET i == CHOOSE i \in 1..Len(UpperLetters) : SubSeq(UpperLetters, i, i) = ch
         IN  SubSeq(LowerLetters, i, i)
    ELSE ch

RECURSIVE ToLowerCase(_)
ToLowerCase(s) ==
    IF Len(s) = 0 THEN s
    ELSE LowerChar(SubSeq(s, 1, 1)) \o ToLowerCase(SubSeq(s, 2, Len(s)))

\* response.ok
Ok(status) == status >= 200 /\ status <= 299

\* ------------------------------------------------------------------------
\* Request options

\* A header value `${scheme} ${token}`; a header that is not set is <<>>.
NoHeader == <<>>
NoBody == <<>>

\* JSON.stringify({ [name]: value })
JsonBody(name, value) == <<name, value>>

NoHeaders == [Authorization |-> NoHeader, ContentType |-> Absent, Accept |-> Absent]

\* options.tokenNames left out.
NoTokenNames ==
    [accessTokenName |-> Absent, refreshTokenName |-> Absent, authHeaderFormat |-> Absent]

DefaultTokenConfig ==
    [accessTokenName |-> "accessToken", refreshTokenName |-> "refreshToken",
     authHeaderFormat |-> "Bearer"]

\* { ...defaults, ...options.tokenNames }
TokenConfig(tokenNames) ==
    [k \in DOMAIN DefaultTokenConfig |->
        IF tokenNames[k] # Absent THEN tokenNames[k] ELSE DefaultTokenConfig[k]]

CookieNames == {"accessToken", "refreshToken", "jwt", "rt"}

Url == "/api/data"
RefreshUrl == "/api/auth/refresh"

\* The caller's options for the protected request.
OptionsChoices ==
    { [method |-> Absent, hasHeaders |-> FALSE, headers |-> NoHeaders, body |-> NoBody,
       tokenNames |-> NoTokenNames],
      [method |-> "POST", hasHeaders |-> TRUE,
       headers |-> [Authorization |-> <<"Bearer", "A1">>, ContentType |-> "text/plain",
                    Accept |-> Absent],
       body |-> JsonBody("book", "b1"),
       tokenNames |-> [accessTokenName |-> "jwt", refreshTokenName |-> Absent,
                       authHeaderFormat |-> Absent]] }

\* The caller's options for the refresh request.
RefreshOptionsChoices ==
    { [method |-> Absent, hasHeaders |-> FALSE, headers |-> NoHeaders, body |-> NoBody,
       responseType |-> Absent, tokenNames |-> NoTokenNames],
      [method |-> "PATCH", hasHeaders |-> TRUE,
       headers |-> [Authorization |-> NoHeader, ContentType |-> Absent,
                    Accept |-> "application/json"],
       body |-> JsonBody("refreshToken", "R0"),
       responseType |-> "cookies",
       tokenNames |-> [accessTokenName |-> "jwt", refreshTokenName |-> "rt",
                       authHeaderFormat |-> "Token"]],
      [method |-> Absent, hasHeaders |-> FALSE, headers |-> NoHeaders, body |-> NoBody,
       responseType |-> "json",
       tokenNames |-> [accessTokenName |-> "jwt", refreshTokenName |-> Absent,
                       authHeaderFormat |-> Absent]] }

\* ------------------------------------------------------------------------
\* Transport: what the endpoints may answer

\* What fetch gave back: nothing yet, a rejection (network error), or a
\* response (a record with a status and a body).
NoResponse == [pending |-> TRUE]
NetworkError == [rejected |-> TRUE]
IsResponse(r) == "status" \in DOMAIN r

\* A request handed to fetch(url, init), with what fetch gave back.
Request(kind, url, method, headers, body) ==
    [kind |-> kind, url |-> url, method |-> method, headers |-> headers, body |-> body,
     response |-> NoResponse]

\* A Set-Cookie header that is not there.
NoSetCookie == <<>>

\* A Set-Cookie header: the cookie strings it concatenates, each one its
\* parts between ";" as name and value (a part without "=" has no value).
SetCookieHeaders ==
    { NoSetCookie,
      << << <<"jwt", "A2">>, <<"Path", "/">>, <<"HttpOnly", Absent>> >>,
         << <<"rt", "R2">>, <<"Path", "/">> >> >>,
      << << <<"jwt", "A2">> >> >>,
      << << <<"accessToken", "A2">>, <<"Path", "/">> >>,
         << <<"jwt", "">> >> >> }

\* Bodies of the refresh endpoint.
RefreshBodies ==
    { [json |-> "object", accessToken |-> "A2", refreshToken |-> "R2"],
      [json |-> "object", accessToken |-> "A2"],
      [json |-> "object", jwt |-> "A3", accessToken |-> "A2", refresh_token |-> "R2"],
      [json |-> "object", accessToken |-> "", token |-> "A2", rt |-> "R3",
       refreshToken |-> "R2"],
      [json |-> "object", message |-> "ok"],
      JsonNull,
      Unparseable }

RefreshStatuses == {200, 403}

\* The refresh endpoint answers with a JSON body or with cookies.
RefreshResponses ==
    [status : RefreshStatuses, body : RefreshBodies, setCookie : {NoSetCookie}]
    \cup [status : RefreshStatuses, body : {[json |-> "object", message |-> "ok"]},
          setCookie : SetCookieHeaders]

\* Bodies of the protected endpoint.
ProtectedBodies ==
    { [json |-> "object", items |-> "[]"],
      [json |-> "object", message |-> "jwt expired"],
      [json |-> "object", message |-> "Token Expired"],
      [json |-> "object", message |-> "Forbidden"],
      [json |-> "object", error |-> "Bad request"],
      [json |-> "object", message |-> "", error |-> ""],
      JsonNull,
      Unparseable }

ProtectedStatuses == {200, 401, 403}

ProtectedResponses == [status : ProtectedStatuses, body : ProtectedBodies]

\* ------------------------------------------------------------------------
\* refresh.ts: parseCookieHeader

ParseCookieHeader(setCookieHeader) ==
    LET nameValue(i) == setCookieHeader[i][1]
        kept == {i \in 1..Len(setCookieHeader) :
                    ~Falsy(nameValue(i)[1]) /\ ~Falsy(nameValue(i)[2])}
        names == {nameValue(i)[1] : i \in kept}
        last(n) == CHOOSE i \in kept :
                      /\ nameValue(i)[1] = n
                      /\ \A j \in kept : nameValue(j)[1] = n => j <= i
    IN  [n \in names |-> nameValue(last(n))[2]]

\* ------------------------------------------------------------------------
\* State

VARIABLES
    store,      \* the cookie store of cookies(): cookie name -> value or Absent
    writable,   \* cookies().set is allowed (Server Action or Route Handler);
                \* in a Server Component it throws
    calls,      \* per call slot: where the call is and its locals
    settled,    \* outcomes of the refresh attempts that have returned so far
    client      \* the React state of AuthProvider and useAuthenticatedFetch

vars == <<store, writable, calls, settled, client>>

Ops == {"refresh", "retry", "refreshAndRetry", "fetchWithRefreshRetry"}

NoResult == [pending |-> TRUE]

NoOptions ==
    [method |-> Absent, hasHeaders |-> FALSE, headers |-> NoHeaders, body |-> NoBody,
     tokenNames |-> NoTokenNames]

NoRefreshOptions ==
    [method |-> Absent, hasHeaders |-> FALSE, headers |-> NoHeaders, body |-> NoBody,
     responseType |-> Absent, tokenNames |-> NoTokenNames]

\* The middleware's config without its refreshUrl and refreshOptions, all
\* left to their defaults.
NoConfig == [tokenNames |-> NoTokenNames, loginPath |-> Absent, protectedPaths |-> <<>>]

\* A RequestInit left empty, and the arguments of a call of
\* refreshAndRetryRequest that was not made.
NoInit == [method |-> Absent, hasHeaders |-> FALSE, headers |-> NoHeaders, body |-> NoBody]

NoRequest ==
    [refreshUrl |-> Absent, retryUrl |-> Absent, refreshOptions |-> NoInit,
     retryOptions |-> NoInit]

\* A call slot nobody uses.
Idle ==
    [pc |-> "idle", op |-> "none",
     url |-> Absent, options |-> NoOptions,
     refreshUrl |-> Absent, refreshOptions |-> NoRefreshOptions,
     config |-> NoConfig,      \* refreshTokenMiddleware only
     now |-> 0,                \* the clock as isTokenExpired read it
     newAccessToken |-> Absent, newRefreshToken |-> Absent,
     storeAtCall |-> [n \in CookieNames |-> Absent],   \* the store when the call began
     log |-> <<>>,             \* the requests the call handed to fetch, in order
     exc |-> "none",           \* the exception last thrown inside the call
     refreshResult |-> NoResult,
     result |-> NoResult,
     request |-> NoRequest,    \* the arguments of refreshAndRetryRequest
     resolved |-> <<>>,        \* what its promise was resolved with, in order
     props |-> NoRequest,      \* fetchData only: the hook's options in its closure
     action |-> NoResult,      \* fetchData only: what fetchAction resolved with
     invocations |-> 0]        \* fetchData only: its calls of refreshAndRetryRequest

\* useState(null) of AuthProvider's error (part_002 line 44) and of the
\* hook's data, useState(false) of its hasInitialized
\* (useAuthenticatedFetch.ts lines 28-29).
NoClientState == [error |-> Null, data |-> Null, hasInitialized |-> FALSE]

Init ==
    /\ store \in {f \in [CookieNames -> {Absent, "A1", "R1"}] :
                    /\ f["accessToken"] \in {Absent, "A1"}
                    /\ f["jwt"] \in {Absent, "A1"}
                    /\ f["refreshToken"] \in {Absent, "R1"}
                    /\ f["rt"] = f["refreshToken"]}
    /\ writable \in BOOLEAN
    /\ calls = [c \in Calls |-> Idle]
    /\ settled = {}
    /\ client = NoClientState

\* ------------------------------------------------------------------------
\* refresh.ts: refresh

\* The refresh token is not in the store (lines 42-49).
RefreshNoToken ==
    [success |-> FALSE, status |-> 401, error |-> "No refresh token available",
     data |-> JsonNull]

\* The request of lines 52-61.
RefreshRequest(url, options, tokenConfig, refreshToken) ==
    Request("refresh", url,
            IF options.method # Absent THEN options.method ELSE "POST",
            IF options.hasHeaders THEN options.headers
            ELSE [NoHeaders EXCEPT !.ContentType = "application/json"],
            JsonBody(tokenConfig.refreshTokenName, refreshToken))

\* !refreshResponse.ok (lines 63-71).
RefreshRejected(status) ==
    [success |-> FALSE, status |-> status, error |-> "Token refresh failed",
     data |-> JsonNull]

\* No Set-Cookie header (lines 79-86).
RefreshNoCookies ==
    [success |-> FALSE, status |-> 500,
     error |-> "No cookies returned from refresh endpoint", data |-> JsonNull]

\* No access token among the cookies (lines 93-100).
RefreshNoAccessCookie(tokenConfig) ==
    [success |-> FALSE, status |-> 500,
     error |-> "Access token not found in cookies (looking for: "
                 \o tokenConfig.accessTokenName \o ")",
     data |-> JsonNull]

\* No access token in the body (lines 115-122).
RefreshNoAccessField(tokenConfig) ==
    [success |-> FALSE, status |-> 500,
     error |-> "Access token not found in response (looking for: "
                 \o tokenConfig.accessTokenName \o ")",
     data |-> JsonNull]

\* Lines 89-91: the tokens among the parsed cookies.
TokensFromCookies(setCookieHeader, tokenConfig) ==
    LET cookies == ParseCookieHeader(setCookieHeader)
    IN  [access |-> Get(cookies, tokenConfig.accessTokenName),
         refresh |-> Get(cookies, tokenConfig.refreshTokenName)]

\* Lines 104-113: the tokens in the parsed body.
TokensFromJson(refreshData, tokenConfig) ==
    [access |-> Or(Get(refreshData, tokenConfig.accessTokenName),
                Or(Get(refreshData, "accessToken"),
                Or(Get(refreshData, "token"),
                   Get(refreshData, "access_token")))),
     refresh |-> Or(Get(refreshData, tokenConfig.refreshTokenName),
                 Or(Get(refreshData, "refreshToken"),
                    Get(refreshData, "refresh_token")))]

\* Lines 145-150.
RefreshSucceeded(status) ==
    [success |-> TRUE, status |-> status, data |-> JsonNull, error |-> Null]

\* The catch clause (lines 151-158).
RefreshCatch ==
    [success |-> FALSE, status |-> 500, data |-> JsonNull, error |-> "Request failed"]

\* SetCookies that stores the access token only.
SetCookies_AccessOnly(st, tokenConfig, newAccessToken, newRefreshToken) ==
    [st EXCEPT ![tokenConfig.accessTokenName] = newAccessToken]

\* SetCookies that sets the refresh token whether or not there is a new
\* one.
SetCookies_RefreshAlways(st, tokenConfig, newAccessToken, newRefreshToken) ==
    [st EXCEPT ![tokenConfig.accessTokenName] = newAccessToken,
               ![tokenConfig.refreshTokenName] = newRefreshToken]

\* Lines 127-143: cookieStore.set of the new tokens.
SetCookies(st, tokenConfig, newAccessToken, newRefreshToken) ==
    LET withAccess == [st EXCEPT ![tokenConfig.accessTokenName] = newAccessToken]
    IN  IF ~Falsy(newRefreshToken)
        THEN [withAccess EXCEPT ![tokenConfig.refreshTokenName] = newRefreshToken]
        ELSE withAccess

\* ------------------------------------------------------------------------
\* retry (auth-server-component-wrapper.tsx lines 71-134)

\* Lines 97-104: the Authorization header from the stored access token.
AuthHeader(tokenConfig, accessToken) ==
    IF ~Falsy(accessToken) THEN <<tokenConfig.authHeaderFormat, accessToken>> ELSE NoHeader

\* RetryRequest that sets Content-Type and Accept only where the caller's
\* headers have none.
RetryRequest_KeepHeaders(url, options, authHeader) ==
    Request("retry", url, options.method,
            [Authorization |-> IF authHeader # NoHeader THEN authHeader
                               ELSE options.headers.Authorization,
             ContentType |-> Or(options.headers.ContentType, "application/json"),
             Accept |-> Or(options.headers.Accept, "application/json")],
            options.body)

\* The request of lines 105-113.
RetryRequest(url, options, authHeader) ==
    Request("retry", url, options.method,
            [Authorization |-> IF authHeader # NoHeader THEN authHeader
                               ELSE options.headers.Authorization,
             ContentType |-> "application/json",
             Accept |-> "application/json"],
            options.body)

\* RetryResult that raises needsRefresh for every status that is not 2xx.
RetryResult_NeedsRefreshOnFailure(status, data) ==
    [success |-> Ok(status),
     status |-> status,
     needsRefresh |-> ~Ok(status),
     data |-> IF Ok(status) THEN data ELSE JsonNull,
     error |-> IF Ok(status) THEN Null
               ELSE Or(Get(data, "message"), Or(Get(data, "error"), "Request failed"))]

\* RetryResult without the "Request failed" fallback of line 124.
RetryResult_NoFallback(status, data) ==
    [success |-> Ok(status),
     status |-> status,
     needsRefresh |-> (status = 401),
     data |-> IF Ok(status) THEN data ELSE JsonNull,
     error |-> IF Ok(status) THEN Null
               ELSE Or(Get(data, "message"), Get(data, "error"))]

\* Lines 117-125, for a body that parsed to an object or to null with
\* response.ok (data.message of null throws and is not computed here).
RetryResult(status, data) ==
    [success |-> Ok(status),
     status |-> status,
     needsRefresh |-> (status = 401),
     data |-> IF Ok(status) THEN data ELSE JsonNull,
     error |-> IF Ok(status) THEN Null
               ELSE Or(Get(data, "message"), Or(Get(data, "error"), "Request failed"))]

\* The catch clause (lines 126-133).
RetryCatch ==
    [success |-> FALSE, needsLogin |-> TRUE, error |-> "Authentication failed",
     data |-> JsonNull]

\* ------------------------------------------------------------------------
\* fetchWithRefreshRetry.ts: results

\* FetchFailed that reports the generic "Request failed".
FetchFailed_RequestFailed ==
    [success |-> FALSE, error |-> "Request failed", data |-> JsonNull]

\* Lines 30-34.
FetchFailed == [success |-> FALSE, error |-> "Authentication failed", data |-> JsonNull]

\* Lines 38-43.
FetchSucceeded(status, data) ==
    [success |-> TRUE, status |-> status, data |-> data, error |-> Null]

\* The catch clause (lines 44-49).
FetchCatch == [success |-> FALSE, error |-> "Authentication failed", data |-> JsonNull]

\* IsExpiredMessage that ignores case.
IsExpiredMessage_IgnoreCase(message) == Includes(ToLowerCase(message), "expire")

\* Line 22: data.message.includes("expire"), for a message that is a string.
IsExpiredMessage(message) == Includes(message, "expire")

\* ------------------------------------------------------------------------
\* Where a call goes when a function returns or throws

\* refreshAndRetry was called by AuthProvider's refreshAndRetryRequest: by
\* the program's caller through useAuth, or by the hook's fetchData.
ViaProvider(call) == call.op \in {"refreshAndRetryRequest", "fetchData"}

\* Return that resolves nothing when refreshAndRetryRequest gets a result
\* that is no success: its promise stays pending.
Return_FailureUnresolved(call, result) ==
    [call EXCEPT !.pc = IF ~ViaProvider(call) THEN "done"
                        ELSE IF result.success THEN "provider.await"
                        ELSE "provider.pending",
                 !.result = result]

\* The call returns `result` to its caller: to the program's caller, or to
\* the await of refreshAndRetryRequest (part_002 lines 65-70).
Return(call, result) ==
    [call EXCEPT !.pc = IF ViaProvider(call) THEN "provider.await" ELSE "done",
                 !.result = result]

\* AfterRefresh that goes on to the retry whatever the refresh returned.
AfterRefresh_AlwaysRetry(call, refreshResult) ==
    IF call.op = "refresh"
    THEN Return([call EXCEPT !.refreshResult = refreshResult], refreshResult)
    ELSE [call EXCEPT !.refreshResult = refreshResult, !.pc = "retry.cookies"]

\* refreshAndRetry.ts lines 18-27 (fetchWithRefreshRetry returns what
\* refreshAndRetry returns): a failed refresh is returned as it is, a
\* successful one is followed by retry.  A direct call of refresh returns.
AfterRefresh(call, refreshResult) ==
    IF call.op = "refresh" \/ ~refreshResult.success
    THEN Return([call EXCEPT !.refreshResult = refreshResult], refreshResult)
    ELSE [call EXCEPT !.refreshResult = refreshResult, !.pc = "retry.cookies"]

\* RefreshThrows without the catch clause: the exception leaves refresh.
RefreshThrows_Uncaught(call, kind) == [call EXCEPT !.exc = kind, !.pc = "thrown"]

\* An exception inside refresh's try block (refresh.ts lines 25, 151-158).
RefreshThrows(call, kind) == AfterRefresh([call EXCEPT !.exc = kind], RefreshCatch)

\* An exception inside retry's try block (lines 84, 126-133).
RetryThrows(call, kind) == Return([call EXCEPT !.exc = kind], RetryCatch)

\* An exception inside fetchWithRefreshRetry's try block (lines 15, 44-49).
FetchThrows(call, kind) == Return([call EXCEPT !.exc = kind], FetchCatch)

\* The outcome of a refresh attempt, as later calls could learn it.
Outcome(call) ==
    IF "success" \notin DOMAIN call.refreshResult THEN {}
    ELSE IF call.refreshResult.success THEN {"success"} ELSE {"failure"}

\* fetch settles: the call's last request gets its response.
Settle(call, response) == [call EXCEPT !.log[Len(call.log)].response = response]

LastResponse(call) == call.log[Len(call.log)].response

\* ------------------------------------------------------------------------
\* Actions: entries

\* fetchWithRefreshRetry that reads the stored access token for its
\* initial request.
fetchWithRefreshRetry_ReadsStore(c, optionsChoices, refreshOptionsChoices) ==
    /\ calls[c].pc = "idle"
    /\ \E options \in optionsChoices, refreshOptions \in refreshOptionsChoices :
         LET tokenConfig == TokenConfig(refreshOptions.tokenNames)
             authHeader == AuthHeader(tokenConfig, store[tokenConfig.accessTokenName])
         IN  calls' = [calls EXCEPT ![c] =
                     [Idle EXCEPT !.pc = "fetch", !.op = "fetchWithRefreshRetry",
                                  !.url = Url, !.options = options,
                                  !.refreshUrl = RefreshUrl,
                                  !.refreshOptions = refreshOptions,
                                  !.storeAtCall = store,
                                  !.log = <<Request("initial", Url, options.method,
                                                    [options.headers EXCEPT
                                                        !.Authorization = authHeader],
                                                    options.body)>>]]
    /\ UNCHANGED <<store, writable, settled, client>>

\* A call of fetchWithRefreshRetry(url, options, refreshUrl, refreshOptions)
\* up to its first await: the initial fetch (lines 7-16).
fetchWithRefreshRetry(c, optionsChoices, refreshOptionsChoices) ==
    /\ calls[c].pc = "idle"
    /\ \E options \in optionsChoices, refreshOptions \in refreshOptionsChoices :
         calls' = [calls EXCEPT ![c] =
                     [Idle EXCEPT !.pc = "fetch", !.op = "fetchWithRefreshRetry",
                                  !.url = Url, !.options = options,
                                  !.refreshUrl = RefreshUrl,
                                  !.refreshOptions = refreshOptions,
                                  !.storeAtCall = store,
                                  !.log = <<Request("initial", Url, options.method,
                                                    options.headers, options.body)>>]]
    /\ UNCHANGED <<store, writable, settled, client>>

\* A call of refreshAndRetry(url, options, refreshUrl, refreshOptions) up
\* to the first await of the refresh it calls (refreshAndRetry.ts line 18,
\* refresh.ts lines 25-38).
refreshAndRetry(c, optionsChoices, refreshOptionsChoices) ==
    /\ calls[c].pc = "idle"
    /\ \E options \in optionsChoices, refreshOptions \in refreshOptionsChoices :
         calls' = [calls EXCEPT ![c] =
                     [Idle EXCEPT !.pc = "refresh.cookies", !.op = "refreshAndRetry",
                                  !.url = Url, !.options = options,
                                  !.refreshUrl = RefreshUrl,
                                  !.refreshOptions = refreshOptions,
                                  !.storeAtCall = store]]
    /\ UNCHANGED <<store, writable, settled, client>>

\* A call of refresh(url, options) up to its first await (lines 16-38).
refresh(c, refreshOptionsChoices) ==
    /\ calls[c].pc = "idle"
    /\ \E refreshOptions \in refreshOptionsChoices :
         calls' = [calls EXCEPT ![c] =
                     [Idle EXCEPT !.pc = "refresh.cookies", !.op = "refresh",
                                  !.refreshUrl = RefreshUrl,
                                  !.refreshOptions = refreshOptions,
                                  !.storeAtCall = store]]
    /\ UNCHANGED <<store, writable, settled, client>>

\* A call of retry(url, options) up to its first await (lines 83-93).
retry(c, optionsChoices) ==
    /\ calls[c].pc = "idle"
    /\ \E options \in optionsChoices :
         calls' = [calls EXCEPT ![c] =
                     [Idle EXCEPT !.pc = "retry.cookies", !.op = "retry",
                                  !.url = Url, !.options = options,
                                  !.storeAtCall = store]]
    /\ UNCHANGED <<store, writable, settled, client>>

\* ------------------------------------------------------------------------
\* Actions: fetchWithRefreshRetry

\* Lines 16-49: what the call does with the outcome of the initial fetch.
\* needsRefresh is refreshAndRetry(url, options, refreshUrl, refreshOptions),
\* which runs refresh up to its first await.
FetchOutcome(call, response) ==
    LET needsRefresh == [call EXCEPT !.pc = "refresh.cookies"]
        data == response.body
        message == Get(data, "message")
    IN  IF ~IsResponse(response) THEN FetchThrows(call, "network")
        ELSE IF ~Ok(response.status)
        THEN IF response.status = 401 THEN needsRefresh
             ELSE IF data = Unparseable THEN FetchThrows(call, "parse")
             ELSE IF data = JsonNull \/ message = Absent THEN FetchThrows(call, "type")
             ELSE IF IsExpiredMessage(message) THEN needsRefresh
             ELSE Return(call, FetchFailed)
        ELSE IF data = Unparseable THEN FetchThrows(call, "parse")
             ELSE Return(call, FetchSucceeded(response.status, data))

\* The initial fetch settles.
fetchWithRefreshRetry_response(c, responses) ==
    /\ calls[c].pc = "fetch"
    /\ \E response \in responses \cup {NetworkError} :
         calls' = [calls EXCEPT ![c] = FetchOutcome(Settle(calls[c], response), response)]
    /\ UNCHANGED <<store, writable, settled, client>>

\* ------------------------------------------------------------------------
\* Actions: refresh

\* RefreshReadToken with single-flight deduplication: a call that finds a
\* refresh request in flight waits for it and issues none of its own.
RefreshReadToken_SingleFlight(call, refreshToken) ==
    LET tokenConfig == TokenConfig(call.refreshOptions.tokenNames)
    IN  IF Falsy(refreshToken)
        THEN AfterRefresh(call, RefreshNoToken)
        ELSE IF \E d \in Calls : calls[d].pc = "refresh.fetch"
        THEN [call EXCEPT !.pc = "refresh.fetch"]
        ELSE [call EXCEPT !.pc = "refresh.fetch",
                          !.log = Append(@, RefreshRequest(call.refreshUrl,
                                               call.refreshOptions, tokenConfig,
                                               refreshToken))]

\* RefreshReadToken with a failure that sticks: once a refresh attempt has
\* failed, later calls are handed a failure and issue no request.
RefreshReadToken_StickyFailure(call, refreshToken) ==
    LET tokenConfig == TokenConfig(call.refreshOptions.tokenNames)
    IN  IF Falsy(refreshToken)
        THEN AfterRefresh(call, RefreshNoToken)
        ELSE IF "failure" \in settled
        THEN AfterRefresh(call, RefreshCatch)
        ELSE [call EXCEPT !.pc = "refresh.fetch",
                          !.log = Append(@, RefreshRequest(call.refreshUrl,
                                               call.refreshOptions, tokenConfig,
                                               refreshToken))]

\* RefreshReadToken without the check of lines 42-49: the request is
\* issued with whatever was read.
RefreshReadToken_NoCheck(call, refreshToken) ==
    LET tokenConfig == TokenConfig(call.refreshOptions.tokenNames)
    IN  [call EXCEPT !.pc = "refresh.fetch",
                     !.log = Append(@, RefreshRequest(call.refreshUrl,
                                          call.refreshOptions, tokenConfig,
                                          refreshToken))]

\* Lines 38-61: with the refresh token read from the store, refresh returns
\* or issues the refresh request.
RefreshReadToken(call, refreshToken) ==
    LET tokenConfig == TokenConfig(call.refreshOptions.tokenNames)
    IN  IF Falsy(refreshToken)
        THEN AfterRefresh(call, RefreshNoToken)
        ELSE [call EXCEPT !.pc = "refresh.fetch",
                          !.log = Append(@, RefreshRequest(call.refreshUrl,
                                               call.refreshOptions, tokenConfig,
                                               refreshToken))]

\* cookies() resolves.
refresh_readToken(c) ==
    LET call == calls[c]
        tokenConfig == TokenConfig(call.refreshOptions.tokenNames)
        after == RefreshReadToken(call, store[tokenConfig.refreshTokenName])
    IN  /\ call.pc = "refresh.cookies"
        /\ calls' = [calls EXCEPT ![c] = after]
        /\ settled' = settled \cup Outcome(after)
        /\ UNCHANGED <<store, writable, client>>

\* RefreshOutcome without the checks of lines 79, 93 and 115: whatever was
\* read from a 2xx response goes on to be stored.
RefreshOutcome_NoAccessCheck(response, responseType, tokenConfig) ==
    IF ~IsResponse(response) THEN [kind |-> "throw", exc |-> "network"]
    ELSE IF ~Ok(response.status)
    THEN [kind |-> "return", result |-> RefreshRejected(response.status)]
    ELSE IF responseType = "cookies"
    THEN [kind |-> "tokens",
          tokens |-> TokensFromCookies(response.setCookie, tokenConfig)]
    ELSE IF response.body = Unparseable THEN [kind |-> "throw", exc |-> "parse"]
    ELSE IF response.body = JsonNull THEN [kind |-> "throw", exc |-> "type"]
    ELSE [kind |-> "tokens", tokens |-> TokensFromJson(response.body, tokenConfig)]

\* Lines 63-123: what the refresh response leads to: a result to return,
\* an exception, or the new tokens to store.
RefreshOutcome(response, responseType, tokenConfig) ==
    IF ~IsResponse(response) THEN [kind |-> "throw", exc |-> "network"]
    ELSE IF ~Ok(response.status)
    THEN [kind |-> "return", result |-> RefreshRejected(response.status)]
    ELSE IF responseType = "cookies"
    THEN IF response.setCookie = NoSetCookie
         THEN [kind |-> "return", result |-> RefreshNoCookies]
         ELSE LET tokens == TokensFromCookies(response.setCookie, tokenConfig)
              IN  IF Falsy(tokens.access)
                  THEN [kind |-> "return", result |-> RefreshNoAccessCookie(tokenConfig)]
                  ELSE [kind |-> "tokens", tokens |-> tokens]
    ELSE IF response.body = Unparseable THEN [kind |-> "throw", exc |-> "parse"]
    ELSE IF response.body = JsonNull THEN [kind |-> "throw", exc |-> "type"]
    ELSE LET tokens == TokensFromJson(response.body, tokenConfig)
         IN  IF Falsy(tokens.access)
             THEN [kind |-> "return", result |-> RefreshNoAccessField(tokenConfig)]
             ELSE [kind |-> "tokens", tokens |-> tokens]

\* The refresh request settles (lines 52-126).
refresh_response(c, responses) ==
    /\ calls[c].pc = "refresh.fetch"
    /\ \E response \in responses \cup {NetworkError} :
         LET call == Settle(calls[c], response)
             out == RefreshOutcome(response, call.refreshOptions.responseType,
                                   TokenConfig(call.refreshOptions.tokenNames))
             after == CASE out.kind = "return" -> AfterRefresh(call, out.result)
                        [] out.kind = "throw" -> RefreshThrows(call, out.exc)
                        [] out.kind = "tokens" ->
                             [call EXCEPT !.pc = "refresh.set",
                                          !.newAccessToken = out.tokens.access,
                                          !.newRefreshToken = out.tokens.refresh]
         IN  /\ calls' = [calls EXCEPT ![c] = after]
             /\ settled' = settled \cup Outcome(after)
    /\ UNCHANGED <<store, writable, client>>

\* cookies() resolves: the new tokens are stored and refresh returns
\* (lines 126-150); cookieStore.set throws where cookies cannot be set.
refresh_setCookies(c) ==
    LET call == calls[c]
        tokenConfig == TokenConfig(call.refreshOptions.tokenNames)
        after == IF writable
                 THEN AfterRefresh(call, RefreshSucceeded(LastResponse(call).status))
                 ELSE RefreshThrows(call, "store")
    IN  /\ call.pc = "refresh.set"
        /\ store' = IF writable
                    THEN SetCookies(store, tokenConfig, call.newAccessToken,
                                    call.newRefreshToken)
                    ELSE store
        /\ calls' = [calls EXCEPT ![c] = after]
        /\ settled' = settled \cup Outcome(after)
        /\ UNCHANGED <<writable, client>>

\* ------------------------------------------------------------------------
\* Actions: retry

\* RetryReadToken that uses the cookies the call saw when it began.
RetryReadToken_Stale(call, st) ==
    LET tokenNames == IF call.op = "retry" THEN call.options.tokenNames
                      ELSE call.refreshOptions.tokenNames
        tokenConfig == TokenConfig(tokenNames)
        accessToken == call.storeAtCall[tokenConfig.accessTokenName]
    IN  [call EXCEPT !.pc = "retry.fetch",
                     !.log = Append(@, RetryRequest(call.url, call.options,
                                          AuthHeader(tokenConfig, accessToken)))]

\* RetryReadToken that reads the "refreshToken" cookie as the access token
\* and always writes a Bearer header.
RetryReadToken_RefreshCookie(call, st) ==
    LET accessToken == st["refreshToken"]
    IN  [call EXCEPT !.pc = "retry.fetch",
                     !.log = Append(@, RetryRequest(call.url, call.options,
                                          IF ~Falsy(accessToken)
                                          THEN <<"Bearer", accessToken>>
                                          ELSE NoHeader))]

\* RetryReadToken that takes retry's token names from the request options
\* whoever calls it.
RetryReadToken_OptionsNames(call, st) ==
    LET tokenConfig == TokenConfig(call.options.tokenNames)
        accessToken == st[tokenConfig.accessTokenName]
    IN  [call EXCEPT !.pc = "retry.fetch",
                     !.log = Append(@, RetryRequest(call.url, call.options,
                                          AuthHeader(tokenConfig, accessToken)))]

\* Lines 85-113: with the access token read from the store, retry issues
\* the request.  Called from refreshAndRetry, retry is given the refresh
\* options' tokenNames (refreshAndRetry.ts lines 24-27).
RetryReadToken(call, st) ==
    LET tokenNames == IF call.op = "retry" THEN call.options.tokenNames
                      ELSE call.refreshOptions.tokenNames
        tokenConfig == TokenConfig(tokenNames)
        accessToken == st[tokenConfig.accessTokenName]
    IN  [call EXCEPT !.pc = "retry.fetch",
                     !.log = Append(@, RetryRequest(call.url, call.options,
                                          AuthHeader(tokenConfig, accessToken)))]

\* cookies() resolves.
retry_readToken(c) ==
    /\ calls[c].pc = "retry.cookies"
    /\ calls' = [calls EXCEPT ![c] = RetryReadToken(calls[c], store)]
    /\ UNCHANGED <<store, writable, settled, client>>

\* RetryOutcome that starts another refresh-and-retry cycle when the
\* retried request is answered with 401.
RetryOutcome_Loop(call, response) ==
    IF ~IsResponse(response) THEN RetryThrows(call, "network")
    ELSE IF response.status = 401 THEN [call EXCEPT !.pc = "refresh.cookies"]
    ELSE IF response.body = Unparseable THEN RetryThrows(call, "parse")
    ELSE IF ~Ok(response.status) /\ response.body = JsonNull
    THEN RetryThrows(call, "type")
    ELSE Return(call, RetryResult(response.status, response.body))

\* Lines 105-133: what the call does with the outcome of the retried fetch.
RetryOutcome(call, response) ==
    IF ~IsResponse(response) THEN RetryThrows(call, "network")
    ELSE IF response.body = Unparseable THEN RetryThrows(call, "parse")
    ELSE IF ~Ok(response.status) /\ response.body = JsonNull
    THEN RetryThrows(call, "type")
    ELSE Return(call, RetryResult(response.status, response.body))

\* The retried request settles.
retry_response(c, responses) ==
    /\ calls[c].pc = "retry.fetch"
    /\ \E response \in responses \cup {NetworkError} :
         calls' = [calls EXCEPT ![c] = RetryOutcome(Settle(calls[c], response), response)]
    /\ UNCHANGED <<store, writable, settled, client>>

\* ------------------------------------------------------------------------
\* refreshTokenMiddleware (refreshTokenMiddleware.ts).  The request's
\* cookies are the store; the cookies set or deleted on the response reach
\* the store when the middleware returns it.

\* s.startsWith(prefix)
StartsWith(s, prefix) ==
    Len(prefix) <= Len(s) /\ SubSeq(s, 1, Len(prefix)) = prefix

\* Paths of the requests the middleware sees.
Paths == {"/dashboard", "/about", "/login"}

\* The configs the middleware is called with.
ConfigChoices ==
    { NoConfig,
      [tokenNames |-> [accessTokenName |-> "jwt", refreshTokenName |-> "rt",
                       authHeaderFormat |-> Absent],
       loginPath |-> "/login", protectedPaths |-> <<"/dash">>] }

\* Lines 37, 171: loginPath = "/login" by default.
LoginPath(config) == IF config.loginPath # Absent THEN config.loginPath ELSE "/login"

\* Lines 42-48: { ...defaults, ...tokenNames, ...refreshOptions.tokenNames }
FinalTokenConfig(config, refreshOptions) ==
    [k \in DOMAIN DefaultTokenConfig |->
        IF refreshOptions.tokenNames[k] # Absent THEN refreshOptions.tokenNames[k]
        ELSE IF config.tokenNames[k] # Absent THEN config.tokenNames[k]
        ELSE DefaultTokenConfig[k]]

\* Lines 59-65.
IsProtected(path, protectedPaths) ==
    \/ Len(protectedPaths) = 0
    \/ \E i \in 1..Len(protectedPaths) : StartsWith(path, protectedPaths[i])

\* NextResponse.next() and NextResponse.redirect(loginPath).
MiddlewareNext == [kind |-> "next", location |-> Absent]
MiddlewareRedirect(config) == [kind |-> "redirect", location |-> LoginPath(config)]

\* DeleteCookies that deletes the access token only.
DeleteCookies_AccessOnly(st, tokenConfig) ==
    [st EXCEPT ![tokenConfig.accessTokenName] = Absent]

\* Lines 172-173: response.cookies.delete of both tokens.
DeleteCookies(st, tokenConfig) ==
    [st EXCEPT ![tokenConfig.accessTokenName] = Absent,
               ![tokenConfig.refreshTokenName] = Absent]

\* The catch clause (lines 168-175).
MiddlewareCatch(call, kind) ==
    Return([call EXCEPT !.exc = kind], MiddlewareRedirect(call.config))

\* MiddlewareStart that looks for the refresh token before the access
\* token.
MiddlewareStart_RefreshFirst(call, st) ==
    LET tokenConfig == FinalTokenConfig(call.config, call.refreshOptions)
        existingToken == st[tokenConfig.accessTokenName]
        refreshTokenValue == st[tokenConfig.refreshTokenName]
    IN  IF ~IsProtected(call.url, call.config.protectedPaths)
           \/ call.url = LoginPath(call.config)
        THEN Return(call, MiddlewareNext)
        ELSE IF Falsy(refreshTokenValue) THEN MiddlewareCatch(call, "error")
        ELSE IF ~Falsy(existingToken) THEN Return(call, MiddlewareNext)
        ELSE [call EXCEPT !.pc = "middleware.fetch",
                          !.log = Append(@, RefreshRequest(call.refreshUrl,
                                               call.refreshOptions, tokenConfig,
                                               refreshTokenValue))]

\* Lines 33-98: the middleware up to its first await.  It lets the request
\* through when the path is not protected or an access token is present,
\* throws when there is no refresh token, and otherwise sends the refresh
\* request.
MiddlewareStart(call, st) ==
    LET tokenConfig == FinalTokenConfig(call.config, call.refreshOptions)
        existingToken == st[tokenConfig.accessTokenName]
        refreshTokenValue == st[tokenConfig.refreshTokenName]
    IN  IF ~IsProtected(call.url, call.config.protectedPaths)
           \/ call.url = LoginPath(call.config)
        THEN Return(call, MiddlewareNext)
        ELSE IF ~Falsy(existingToken) THEN Return(call, MiddlewareNext)
        ELSE IF Falsy(refreshTokenValue) THEN MiddlewareCatch(call, "error")
        ELSE [call EXCEPT !.pc = "middleware.fetch",
                          !.log = Append(@, RefreshRequest(call.refreshUrl,
                                               call.refreshOptions, tokenConfig,
                                               refreshTokenValue))]

\* The store after the middleware's response: unchanged by next(), both
\* tokens deleted by the redirect of the catch clause.
MiddlewareStore(st, call, after) ==
    IF after.pc = "done" /\ after.result.kind = "redirect"
    THEN DeleteCookies(st, FinalTokenConfig(call.config, call.refreshOptions))
    ELSE st

\* A request reaches refreshTokenMiddleware(request, config).
refreshTokenMiddleware(c, paths, configChoices, refreshOptionsChoices) ==
    /\ calls[c].pc = "idle"
    /\ \E path \in paths, config \in configChoices,
          refreshOptions \in refreshOptionsChoices :
         LET call == [Idle EXCEPT !.op = "refreshTokenMiddleware",
                                  !.url = path, !.config = config,
                                  !.refreshUrl = RefreshUrl,
                                  !.refreshOptions = refreshOptions,
                                  !.storeAtCall = store]
             after == MiddlewareStart(call, store)
         IN  /\ calls' = [calls EXCEPT ![c] = after]
             /\ store' = MiddlewareStore(store, call, after)
    /\ UNCHANGED <<writable, settled, client>>

\* Lines 88-175: the refresh request of the middleware settles.  Whatever
\* refresh.ts returns as a failure or throws, the middleware throws; the
\* new tokens are set on the response of next().
refreshTokenMiddleware_response(c, responses) ==
    /\ calls[c].pc = "middleware.fetch"
    /\ \E response \in responses \cup {NetworkError} :
         LET call == Settle(calls[c], response)
             tokenConfig == FinalTokenConfig(call.config, call.refreshOptions)
             out == RefreshOutcome(response, call.refreshOptions.responseType,
                                   tokenConfig)
             after == CASE out.kind = "return" -> MiddlewareCatch(call, "error")
                        [] out.kind = "throw" -> MiddlewareCatch(call, out.exc)
                        [] out.kind = "tokens" ->
                             Return([call EXCEPT !.newAccessToken = out.tokens.access,
                                                 !.newRefreshToken = out.tokens.refresh],
                                    MiddlewareNext)
         IN  /\ calls' = [calls EXCEPT ![c] = after]
             /\ store' = IF out.kind = "tokens"
                         THEN SetCookies(store, tokenConfig, out.tokens.access,
                                         out.tokens.refresh)
                         ELSE MiddlewareStore(store, call, after)
    /\ UNCHANGED <<writable, settled, client>>

\* ------------------------------------------------------------------------
\* refreshTokenMiddleware as src/unnamed/part_001 has it: the variant with
\* isTokenExpired and the extract functions.

\* The payload a token decodes to (its exp claim in seconds), for the
\* tokens that are JWTs; atob or JSON.parse throws on every other string.
JwtPayload(token) ==
    CASE token = "A0" -> [json |-> "object", exp |-> 0]
      [] token = "A1" -> [json |-> "object", exp |-> 2]
      [] token = "A2" -> [json |-> "object", exp |-> 4]
      [] token = "A3" -> [json |-> "object"]
      [] OTHER -> Unparseable

\* Values of Math.floor(Date.now() / 1000).
Times == {1, 2, 3}

\* defaultIsTokenExpired that takes a payload without exp for expired.
defaultIsTokenExpired_ExpRequired(token, now) ==
    LET payload == JwtPayload(token)
    IN  IF payload = Unparseable THEN TRUE
        ELSE IF "exp" \notin DOMAIN payload THEN TRUE
        ELSE payload.exp < now

\* Lines 75-83: defaultIsTokenExpired.  payload.exp < now is false when the
\* payload has no exp.
defaultIsTokenExpired(token, now) ==
    LET payload == JwtPayload(token)
    IN  IF payload = Unparseable THEN TRUE
        ELSE IF "exp" \notin DOMAIN payload THEN FALSE
        ELSE payload.exp < now

\* Lines 88-104: shouldProtectPath, for protectedPaths undefined or a list
\* of strings.
shouldProtectPath(path, protectedPaths) ==
    IF protectedPaths = Absent THEN TRUE
    ELSE \E i \in 1..Len(protectedPaths) : StartsWith(path, protectedPaths[i])

\* The config of lines 136-147 without refreshUrl and refreshOptions, all
\* left to their defaults.
NoConfig001 ==
    [accessToken |-> Absent, refreshToken |-> Absent, loginPath |-> Absent,
     protectedPaths |-> Absent]

Config001Choices ==
    { NoConfig001,
      [accessToken |-> "jwt", refreshToken |-> "rt", loginPath |-> "/login",
       protectedPaths |-> <<"/dash">>],
      [accessToken |-> Absent, refreshToken |-> "", loginPath |-> Absent,
       protectedPaths |-> Absent] }

\* Lines 139-140: the cookie names, "accessToken" and "refreshToken" by
\* default.
Names001(config) ==
    [accessToken |-> IF config.accessToken # Absent THEN config.accessToken
                     ELSE "accessToken",
     refreshToken |-> IF config.refreshToken # Absent THEN config.refreshToken
                      ELSE "refreshToken"]

\* Lines 170-178: the refresh request.  Its body is JSON.stringify({
\* refreshToken }), refreshToken being the cookie name of line 140.
RefreshRequest001(url, options, refreshToken) ==
    Request("refresh", url,
            IF options.method # Absent THEN options.method ELSE "POST",
            IF options.hasHeaders THEN options.headers
            ELSE [NoHeaders EXCEPT !.ContentType = "application/json"],
            JsonBody("refreshToken", refreshToken))

\* cookies.set and cookies.delete for a name that may be the empty string,
\* which names no cookie of the store.
SetCookie001(st, name, value) ==
    IF name \in DOMAIN st THEN [st EXCEPT ![name] = value] ELSE st

\* Lines 190-208: the access token is set whatever was extracted (a value
\* of undefined is written as the empty string), the refresh token when one
\* was extracted.
SetCookies001(st, names, newAccessToken, newRefreshToken) ==
    LET withAccess == SetCookie001(st, names.accessToken,
                                   IF newAccessToken = Absent THEN "" ELSE newAccessToken)
    IN  IF ~Falsy(newRefreshToken)
        THEN SetCookie001(withAccess, names.refreshToken, newRefreshToken)
        ELSE withAccess

\* Lines 212-213.
DeleteCookies001(st, names) ==
    SetCookie001(SetCookie001(st, names.accessToken, Absent), names.refreshToken, Absent)

\* The catch clause (lines 210-216).
MiddlewareCatch001(call, kind) ==
    Return([call EXCEPT !.exc = kind], MiddlewareRedirect(call.config))

\* Lines 136-178: the middleware up to its first await.
MiddlewareStart001(call, st) ==
    LET names == Names001(call.config)
        newAccessToken == IF names.accessToken \in DOMAIN st
                          THEN st[names.accessToken] ELSE Absent
    IN  IF ~shouldProtectPath(call.url, call.config.protectedPaths)
        THEN Return(call, MiddlewareNext)
        ELSE IF call.url = LoginPath(call.config) THEN Return(call, MiddlewareNext)
        ELSE IF Falsy(names.refreshToken)
        THEN Return(call, MiddlewareRedirect(call.config))
        ELSE IF ~Falsy(newAccessToken) /\ ~defaultIsTokenExpired(newAccessToken, call.now)
        THEN Return(call, MiddlewareNext)
        ELSE [call EXCEPT !.pc = "middleware001.fetch",
                          !.log = Append(@, RefreshRequest001(call.refreshUrl,
                                               call.refreshOptions,
                                               names.refreshToken))]

\* A request reaches the middleware.
refreshTokenMiddleware001(c, paths, configChoices, refreshOptionsChoices) ==
    /\ calls[c].pc = "idle"
    /\ \E path \in paths, config \in configChoices,
          refreshOptions \in refreshOptionsChoices, now \in Times :
         LET call == [Idle EXCEPT !.op = "refreshTokenMiddleware001",
                                  !.url = path, !.config = config,
                                  !.refreshUrl = RefreshUrl,
                                  !.refreshOptions = refreshOptions,
                                  !.now = now,
                                  !.storeAtCall = store]
         IN  calls' = [calls EXCEPT ![c] = MiddlewareStart001(call, store)]
    /\ UNCHANGED <<store, writable, settled, client>>

\* Lines 170-216: the refresh request settles.
MiddlewareOutcome001(response) ==
    IF ~IsResponse(response) THEN [kind |-> "throw", exc |-> "network"]
    ELSE IF ~Ok(response.status) THEN [kind |-> "throw", exc |-> "error"]
    ELSE IF response.body = Unparseable THEN [kind |-> "throw", exc |-> "parse"]
    ELSE IF response.body = JsonNull THEN [kind |-> "throw", exc |-> "type"]
    ELSE [kind |-> "tokens",
          tokens |-> [access |-> Get(response.body, "accessToken"),
                      refresh |-> Get(response.body, "refreshToken")]]

refreshTokenMiddleware001_response(c, responses) ==
    /\ calls[c].pc = "middleware001.fetch"
    /\ \E response \in responses \cup {NetworkError} :
         LET call == Settle(calls[c], response)
             names == Names001(call.config)
             out == MiddlewareOutcome001(response)
         IN  IF out.kind = "tokens"
             THEN /\ calls' = [calls EXCEPT ![c] =
                                Return([call EXCEPT
                                           !.newAccessToken = out.tokens.access,
                                           !.newRefreshToken = out.tokens.refresh],
                                       MiddlewareNext)]
                  /\ store' = SetCookies001(store, names, out.tokens.access,
                                            out.tokens.refresh)
             ELSE /\ calls' = [calls EXCEPT ![c] = MiddlewareCatch001(call, out.exc)]
                  /\ store' = DeleteCookies001(store, names)
    /\ UNCHANGED <<writable, settled, client>>

\* ------------------------------------------------------------------------
\* The second retry of auth-server-component-wrapper.tsx (lines 136-170),
\* which takes a plain RequestInit and has no token names.

\* A call of that retry(url, options) up to its first await (lines 138-140).
retry136(c, optionsChoices) ==
    /\ calls[c].pc = "idle"
    /\ \E options \in optionsChoices :
         calls' = [calls EXCEPT ![c] =
                     [Idle EXCEPT !.pc = "retry136.cookies", !.op = "retry136",
                                  !.url = Url, !.options = options,
                                  !.storeAtCall = store]]
    /\ UNCHANGED <<store, writable, settled, client>>

\* Lines 140-149: `accessToken` is the value of the "refreshToken" cookie;
\* with it the request is issued, under "Bearer".
RetryReadToken136(call, st) ==
    LET accessToken == st["refreshToken"]
    IN  [call EXCEPT !.pc = "retry.fetch",
                     !.log = Append(@, RetryRequest(call.url, call.options,
                                          IF ~Falsy(accessToken)
                                          THEN <<"Bearer", accessToken>>
                                          ELSE NoHeader))]

\* cookies() resolves.  What follows (lines 151-169) is what follows in the
\* first retry.
retry136_readToken(c) ==
    /\ calls[c].pc = "retry136.cookies"
    /\ calls' = [calls EXCEPT ![c] = RetryReadToken136(calls[c], store)]
    /\ UNCHANGED <<store, writable, settled, client>>

\* ------------------------------------------------------------------------
\* AuthProvider.refreshAndRetryRequest (src/unnamed/part_002)

\* The RequestInit arguments callers pass.
RequestInits ==
    { NoInit,
      [method |-> "PUT", hasHeaders |-> FALSE, headers |-> NoHeaders,
       body |-> JsonBody("book", "b1")] }

\* A RequestInit where refreshAndRetry expects its options and its
\* refreshOptions: tokenNames and responseType are not there.
AsOptions(init) ==
    [method |-> init.method, hasHeaders |-> init.hasHeaders, headers |-> init.headers,
     body |-> init.body, tokenNames |-> NoTokenNames]

AsRefreshOptions(init) ==
    [method |-> init.method, hasHeaders |-> init.hasHeaders, headers |-> init.headers,
     body |-> init.body, responseType |-> Absent, tokenNames |-> NoTokenNames]

\* Lines 52-70: refreshAndRetryRequest(refreshUrl, retryUrl, refreshOptions,
\* retryOptions) creates its promise and calls refreshAndRetry(refreshUrl,
\* refreshOptions, retryUrl, retryOptions), whose parameters are (url,
\* options, refreshUrl, refreshOptions): the call runs to the first await
\* of refresh.
refreshAndRetryRequest(c, inits) ==
    /\ calls[c].pc = "idle"
    /\ \E refreshOptions \in inits, retryOptions \in inits :
         calls' = [calls EXCEPT ![c] =
                     [Idle EXCEPT !.pc = "refresh.cookies",
                                  !.op = "refreshAndRetryRequest",
                                  !.request = [refreshUrl |-> RefreshUrl,
                                               retryUrl |-> Url,
                                               refreshOptions |-> refreshOptions,
                                               retryOptions |-> retryOptions],
                                  !.url = RefreshUrl,
                                  !.options = AsOptions(refreshOptions),
                                  !.refreshUrl = Url,
                                  !.refreshOptions = AsRefreshOptions(retryOptions),
                                  !.storeAtCall = store]]
    /\ UNCHANGED <<store, writable, settled, client>>

\* Lines 65-70, 82-88: the call of the server action fails before
\* refreshAndRetry has run (the request to the server is lost): the await
\* throws.
refreshAndRetryRequest_rejected(c) ==
    /\ ViaProvider(calls[c])
    /\ calls[c].pc = "refresh.cookies"
    /\ calls' = [calls EXCEPT ![c].pc = "provider.await", ![c].exc = "action"]
    /\ UNCHANGED <<store, writable, settled, client>>

\* Lines 72-88: what the promise is resolved with: null after an exception
\* or a result that is no success, result.data otherwise.
ResolvedValue(call) ==
    IF call.exc = "action" THEN Null
    ELSE IF ~call.result.success THEN Null
    ELSE call.result.data

\* Lines 72-76, 82-87: setError after a result that is no success and after
\* an exception, whose message is the error's.
ProviderError(call) ==
    IF call.exc = "action" THEN "Failed to call the server action"
    ELSE Or(call.result.error, "Authentication failed")

\* Lines 72-88: the await is over, the error is set after a failure and
\* the promise is resolved: the caller's await settles, the program's or
\* fetchData's (useAuthenticatedFetch.ts lines 84-89).
refreshAndRetryRequest_resolve(c) ==
    /\ calls[c].pc = "provider.await"
    /\ calls' = [calls EXCEPT ![c].pc = IF calls[c].op = "fetchData"
                                       THEN "fetchData.retried" ELSE "done",
                              ![c].resolved = Append(@, ResolvedValue(calls[c]))]
    /\ client' = IF calls[c].exc = "action" \/ ~calls[c].result.success
                 THEN [client EXCEPT !.error = ProviderError(calls[c])]
                 ELSE client
    /\ UNCHANGED <<store, writable, settled>>

\* ------------------------------------------------------------------------
\* useAuthenticatedFetch (useAuthenticatedFetch.ts)

\* The refreshOptions and retryOptions of a component that leaves them to
\* their defaults (lines 17 and 19).
HookRefreshInits == { [NoInit EXCEPT !.method = "PATCH"] }

HookRetryInits == { [NoInit EXCEPT !.method = "GET"] }

\* The retryUrl of the component: a URL, or none.
HookRetryUrls == {Url, ""}

\* What the component's fetchAction resolves with: a result with data, a
\* result that reports 401 or 403, a result without a status, and null.
FetchActionResults ==
    { [success |-> TRUE, status |-> 200, data |-> [json |-> "object", items |-> "[]"]],
      [success |-> FALSE, status |-> 401, error |-> "jwt expired"],
      [success |-> FALSE, status |-> 403, error |-> "Forbidden"],
      FetchFailed,
      JsonNull }

\* IsUnauthorized that takes every status but 200 for a reason to refresh.
IsUnauthorized_AnyFailure(result) == "status" \in DOMAIN result /\ result.status # 200

\* Lines 65-70: result is an object with a status that is 401.
IsUnauthorized(result) == "status" \in DOMAIN result /\ result.status = 401

\* Lines 56-61: a run of fetchData begins: clearError(), and fetchAction is
\* called and awaited.
FetchDataBegins(retryUrl, refreshOptions, retryOptions) ==
    [Idle EXCEPT !.pc = "fetchData.action", !.op = "fetchData",
                 !.props = [refreshUrl |-> RefreshUrl, retryUrl |-> retryUrl,
                            refreshOptions |-> refreshOptions,
                            retryOptions |-> retryOptions]]

\* Lines 121-125: the effect runs fetchData after the component is mounted
\* (autoFetch).
fetchData(c, retryUrls, refreshInits, retryInits) ==
    /\ calls[c].pc = "idle"
    /\ \E retryUrl \in retryUrls, refreshOptions \in refreshInits,
          retryOptions \in retryInits :
         calls' = [calls EXCEPT ![c] =
                     FetchDataBegins(retryUrl, refreshOptions, retryOptions)]
    /\ client' = [client EXCEPT !.error = Null]
    /\ UNCHANGED <<store, writable, settled>>

\* Lines 116-119: refetch: setHasInitialized(false), then fetchData().
refetch(c, retryUrls, refreshInits, retryInits) ==
    /\ calls[c].pc = "idle"
    /\ \E retryUrl \in retryUrls, refreshOptions \in refreshInits,
          retryOptions \in retryInits :
         calls' = [calls EXCEPT ![c] =
                     FetchDataBegins(retryUrl, refreshOptions, retryOptions)]
    /\ client' = [client EXCEPT !.hasInitialized = FALSE, !.error = Null]
    /\ UNCHANGED <<store, writable, settled>>

\* Lines 84-89: fetchData calls refreshAndRetryRequest(refreshUrl, retryUrl,
\* refreshOptions, retryOptions), which runs to the first await of refresh
\* as it does for every caller (part_002 lines 52-70).
FetchDataRefreshes(call, cookies) ==
    [call EXCEPT !.pc = "refresh.cookies",
                 !.invocations = @ + 1,
                 !.request = call.props,
                 !.url = call.props.refreshUrl,
                 !.options = AsOptions(call.props.refreshOptions),
                 !.refreshUrl = call.props.retryUrl,
                 !.refreshOptions = AsRefreshOptions(call.props.retryOptions),
                 !.storeAtCall = cookies]

\* Lines 63-107: the run after fetchAction resolved with `result`: it is
\* over, unless the result reports 401 and there is a retryUrl.
FetchDataAfterAction(call, result, cookies) ==
    LET got == [call EXCEPT !.action = result]
    IN  IF IsUnauthorized(result) /\ ~Falsy(call.props.retryUrl)
        THEN FetchDataRefreshes(got, cookies)
        ELSE [got EXCEPT !.pc = "done"]

\* Lines 74-81, 103-107, 111-113: the state the hook sets after fetchAction
\* resolved with `result`: none yet when refreshAndRetryRequest is awaited,
\* no data without a retryUrl, the result otherwise.
FetchDataSetsState(state, call, result) ==
    IF IsUnauthorized(result)
    THEN IF Falsy(call.props.retryUrl)
         THEN [state EXCEPT !.data = Null, !.hasInitialized = TRUE]
         ELSE state
    ELSE [state EXCEPT !.data = IF result = JsonNull THEN Null ELSE result,
                       !.hasInitialized = TRUE]

\* Lines 63-107, 111-113: the await of fetchAction is over.
fetchData_action(c, results) ==
    /\ calls[c].pc = "fetchData.action"
    /\ \E result \in results :
         /\ calls' = [calls EXCEPT ![c] = FetchDataAfterAction(calls[c], result, store)]
         /\ client' = FetchDataSetsState(client, calls[c], result)
    /\ UNCHANGED <<store, writable, settled>>

\* Lines 108-113: fetchAction threw: the catch clause, then finally.
fetchData_threw(c) ==
    /\ calls[c].pc = "fetchData.action"
    /\ calls' = [calls EXCEPT ![c].pc = "done", ![c].exc = "fetchAction"]
    /\ client' = [client EXCEPT !.data = Null, !.hasInitialized = TRUE]
    /\ UNCHANGED <<store, writable, settled>>

\* Lines 91-102: the data after refreshAndRetryRequest resolved with the
\* last of call.resolved: null after a failure (what ResolvedValue is
\* then), and the data of the retry otherwise, which may be null too.
DataAfterRetry(call) ==
    LET retryResult == call.resolved[Len(call.resolved)]
    IN  IF call.exc = "action" \/ ~call.result.success THEN Null
        ELSE IF retryResult = JsonNull THEN Null
        ELSE [success |-> TRUE, data |-> retryResult,
              message |-> "Data fetched successfully after token refresh"]

\* Lines 84-102, 111-113: the await of refreshAndRetryRequest is over.
fetchData_retried(c) ==
    /\ calls[c].pc = "fetchData.retried"
    /\ calls' = [calls EXCEPT ![c].pc = "done"]
    /\ client' = [client EXCEPT !.data = DataAfterRetry(calls[c]),
                                !.hasInitialized = TRUE]
    /\ UNCHANGED <<store, writable, settled>>

\* ------------------------------------------------------------------------
\* The caller has its result: the slot is free for another call.
Returned(c) ==
    /\ calls[c].pc = "done"
    /\ calls' = [calls EXCEPT ![c] = Idle]
    /\ UNCHANGED <<store, writable, settled, client>>

\* No call is in flight and no result is waiting for its caller.
AllIdle == \A c \in Calls : calls[c].pc = "idle"

\* Calls one after the other, with every option and every answer of the
\* endpoints.
Next ==
    \E c \in Calls :
        \/ AllIdle /\ fetchWithRefreshRetry(c, OptionsChoices, RefreshOptionsChoices)
        \/ AllIdle /\ refreshAndRetry(c, OptionsChoices, RefreshOptionsChoices)
        \/ AllIdle /\ refresh(c, RefreshOptionsChoices)
        \/ AllIdle /\ retry(c, OptionsChoices)
        \/ fetchWithRefreshRetry_response(c, ProtectedResponses)
        \/ refresh_readToken(c)
        \/ refresh_response(c, RefreshResponses)
        \/ refresh_setCookies(c)
        \/ retry_readToken(c)
        \/ retry_response(c, ProtectedResponses)
        \/ Returned(c)

Spec == Init /\ [][Next]_vars

\* Calls in flight at the same time, with the default options and the
\* answers that decide whether a refresh and a retry happen.
ConcurrentOptions == {NoOptions}

ConcurrentRefreshOptions == {NoRefreshOptions}

ConcurrentProtectedResponses ==
    { [status |-> 200, body |-> [json |-> "object", items |-> "[]"]],
      [status |-> 401, body |-> [json |-> "object", message |-> "jwt expired"]] }

ConcurrentRefreshResponses ==
    { [status |-> 200, body |-> [json |-> "object", accessToken |-> "A2",
                                 refreshToken |-> "R2"], setCookie |-> NoSetCookie],
      [status |-> 403, body |-> [json |-> "object", message |-> "Forbidden"],
       setCookie |-> NoSetCookie] }

\* The store of a signed-in user whose access token may have expired, with
\* the default cookie names.
InitConcurrent ==
    /\ Init
    /\ store["accessToken"] = "A1"
    /\ store["jwt"] = Absent

NextConcurrent ==
    \E c \in Calls :
        \/ fetchWithRefreshRetry(c, ConcurrentOptions, ConcurrentRefreshOptions)
        \/ refreshAndRetry(c, ConcurrentOptions, ConcurrentRefreshOptions)
        \/ fetchWithRefreshRetry_response(c, ConcurrentProtectedResponses)
        \/ refresh_readToken(c)
        \/ refresh_response(c, ConcurrentRefreshResponses)
        \/ refresh_setCookies(c)
        \/ retry_readToken(c)
        \/ retry_response(c, ConcurrentProtectedResponses)
        \/ Returned(c)

SpecConcurrent == InitConcurrent /\ [][NextConcurrent]_vars

\* Calls of refreshAndRetry running concurrently against a refresh endpoint
\* that issues one of two access tokens to each request it accepts.
RaceRefreshResponses ==
    { [status |-> 200, body |-> [json |-> "object", accessToken |-> "A2",
                                 refreshToken |-> "R2"], setCookie |-> NoSetCookie],
      [status |-> 200, body |-> [json |-> "object", accessToken |-> "A3",
                                 refreshToken |-> "R2"], setCookie |-> NoSetCookie] }

RaceProtectedResponses ==
    { [status |-> 200, body |-> [json |-> "object", items |-> "[]"]] }

NextRace ==
    \E c \in Calls :
        \/ refreshAndRetry(c, ConcurrentOptions, ConcurrentRefreshOptions)
        \/ refresh_readToken(c)
        \/ refresh_response(c, RaceRefreshResponses)
        \/ refresh_setCookies(c)
        \/ retry_readToken(c)
        \/ retry_response(c, RaceProtectedResponses)
        \/ Returned(c)

\* The store of a signed-in user.
InitRace ==
    /\ InitConcurrent
    /\ store["refreshToken"] = "R1"

SpecRace == InitRace /\ [][NextRace]_vars

\* The server functions and the middleware, one call or request at a time.
NextMiddleware ==
    \E c \in Calls :
        \/ AllIdle /\ fetchWithRefreshRetry(c, ConcurrentOptions, RefreshOptionsChoices)
        \/ AllIdle /\ refreshAndRetry(c, ConcurrentOptions, RefreshOptionsChoices)
        \/ AllIdle /\ refresh(c, RefreshOptionsChoices)
        \/ AllIdle /\ refreshTokenMiddleware(c, Paths, ConfigChoices,
                                              RefreshOptionsChoices)
        \/ fetchWithRefreshRetry_response(c, ConcurrentProtectedResponses)
        \/ refresh_readToken(c)
        \/ refresh_response(c, RefreshResponses)
        \/ refresh_setCookies(c)
        \/ retry_readToken(c)
        \/ retry_response(c, ConcurrentProtectedResponses)
        \/ refreshTokenMiddleware_response(c, RefreshResponses)
        \/ Returned(c)

SpecMiddleware == Init /\ [][NextMiddleware]_vars

\* Requests reaching either variant of the middleware and calls of
\* refresh, one at a time, with the refresh options the middleware's
\* example passes or none.
InboundRefreshOptions == {r \in RefreshOptionsChoices : r.responseType = Absent \/ r.hasHeaders}

\* The stored access token is absent, a JWT ("A0" expired long ago, "A1"
\* about to, "A3" without an exp claim) or a string that is no JWT.
InitInbound ==
    /\ store \in {f \in [CookieNames -> {Absent, "A0", "A1", "A3", "R1", "opaque"}] :
                    /\ f["accessToken"] \in {Absent, "A0", "A1", "A3", "opaque"}
                    /\ f["jwt"] = f["accessToken"]
                    /\ f["refreshToken"] \in {Absent, "R1"}
                    /\ f["rt"] = f["refreshToken"]}
    /\ writable = TRUE
    /\ calls = [c \in Calls |-> Idle]
    /\ settled = {}
    /\ client = NoClientState

NextInbound ==
    \E c \in Calls :
        \/ AllIdle /\ refreshTokenMiddleware(c, Paths, ConfigChoices, InboundRefreshOptions)
        \/ AllIdle /\ refreshTokenMiddleware001(c, Paths, Config001Choices,
                                                 InboundRefreshOptions)
        \/ refreshTokenMiddleware_response(c, RefreshResponses)
        \/ refreshTokenMiddleware001_response(c, RefreshResponses)
        \/ AllIdle /\ refresh(c, InboundRefreshOptions)
        \/ refresh_readToken(c)
        \/ refresh_response(c, RefreshResponses)
        \/ refresh_setCookies(c)
        \/ Returned(c)

SpecInbound == InitInbound /\ [][NextInbound]_vars

\* The callers of refreshAndRetry, one call at a time: fetchWithRefreshRetry
\* and the provider's refreshAndRetryRequest, next to refreshAndRetry
\* itself.  Each endpoint answers the requests that reach its URL, whatever
\* the program meant them to be.
ProviderOptions == {AsOptions(init) : init \in RequestInits}

ProviderRefreshOptions == {AsRefreshOptions(init) : init \in RequestInits}

ProviderProtectedResponses ==
    { [status |-> 200, body |-> [json |-> "object", items |-> "[]"],
       setCookie |-> NoSetCookie],
      [status |-> 200, body |-> [json |-> "object", items |-> "[]", token |-> "A9"],
       setCookie |-> NoSetCookie],
      [status |-> 401, body |-> [json |-> "object", message |-> "jwt expired"],
       setCookie |-> NoSetCookie] }

EndpointResponses(call) ==
    IF call.log = <<>> THEN {}
    ELSE IF call.log[Len(call.log)].url = RefreshUrl THEN ConcurrentRefreshResponses
    ELSE ProviderProtectedResponses

NextProvider ==
    \E c \in Calls :
        \/ AllIdle /\ fetchWithRefreshRetry(c, ProviderOptions, ProviderRefreshOptions)
        \/ AllIdle /\ refreshAndRetry(c, ProviderOptions, ProviderRefreshOptions)
        \/ AllIdle /\ refreshAndRetryRequest(c, RequestInits)
        \/ refreshAndRetryRequest_rejected(c)
        \/ fetchWithRefreshRetry_response(c, EndpointResponses(calls[c]))
        \/ refresh_readToken(c)
        \/ refresh_response(c, EndpointResponses(calls[c]))
        \/ refresh_setCookies(c)
        \/ retry_readToken(c)
        \/ retry_response(c, EndpointResponses(calls[c]))
        \/ refreshAndRetryRequest_resolve(c)
        \/ Returned(c)

SpecProvider == Init /\ [][NextProvider]_vars

\* The same calls when whatever a call waits for settles: every fetch is
\* answered or fails, every access to the cookie store returns or throws,
\* and the continuation of every settled await is run.
Progress(c) ==
    \/ refreshAndRetryRequest_rejected(c)
    \/ fetchWithRefreshRetry_response(c, EndpointResponses(calls[c]))
    \/ refresh_readToken(c)
    \/ refresh_response(c, EndpointResponses(calls[c]))
    \/ refresh_setCookies(c)
    \/ retry_readToken(c)
    \/ retry_response(c, EndpointResponses(calls[c]))
    \/ refreshAndRetryRequest_resolve(c)

SpecProviderFair == SpecProvider /\ \A c \in Calls : WF_vars(Progress(c))

\* The runs of fetchData of one useAuthenticatedFetch under one
\* AuthProvider, one after the other: the runs of the effect and the runs
\* of refetch.  Each endpoint answers the requests that reach its URL.
HookResponses(call) ==
    IF call.log = <<>> THEN {}
    ELSE IF call.log[Len(call.log)].url = RefreshUrl THEN ConcurrentRefreshResponses
    ELSE ProviderProtectedResponses

\* The store of a signed-in user, whose refresh token may be gone; the
\* server action may set cookies.
InitHook ==
    /\ InitConcurrent
    /\ writable = TRUE

NextHook ==
    \E c \in Calls :
        \/ AllIdle /\ fetchData(c, HookRetryUrls, HookRefreshInits, HookRetryInits)
        \/ AllIdle /\ refetch(c, HookRetryUrls, HookRefreshInits, HookRetryInits)
        \/ fetchData_action(c, FetchActionResults)
        \/ fetchData_threw(c)
        \/ refreshAndRetryRequest_rejected(c)
        \/ refresh_readToken(c)
        \/ refresh_response(c, HookResponses(calls[c]))
        \/ refresh_setCookies(c)
        \/ retry_readToken(c)
        \/ retry_response(c, HookResponses(calls[c]))
        \/ refreshAndRetryRequest_resolve(c)
        \/ fetchData_retried(c)
        \/ Returned(c)

SpecHook == InitHook /\ [][NextHook]_vars

\* The same runs when whatever a run waits for settles: fetchAction
\* resolves or throws, every fetch is answered or fails, every access to
\* the cookie store returns or throws, and the continuation of every
\* settled await is run.
HookProgress(c) ==
    \/ fetchData_action(c, FetchActionResults)
    \/ fetchData_threw(c)
    \/ refreshAndRetryRequest_rejected(c)
    \/ refresh_readToken(c)
    \/ refresh_response(c, HookResponses(calls[c]))
    \/ refresh_setCookies(c)
    \/ retry_readToken(c)
    \/ retry_response(c, HookResponses(calls[c]))
    \/ refreshAndRetryRequest_resolve(c)
    \/ fetchData_retried(c)

SpecHookFair == SpecHook /\ \A c \in Calls : WF_vars(HookProgress(c))

\* A burst of concurrent calls against a refresh endpoint that rotates the
\* refresh token: each refresh token is accepted once, answered with the
\* next access and refresh token, and rejected with 403 ever after.  The
\* endpoint serves a request when the model delivers its answer.
Rotation ==
    [R1 |-> [accessToken |-> "A2", refreshToken |-> "R2"],
     R2 |-> [accessToken |-> "A3", refreshToken |-> "R3"],
     R3 |-> [accessToken |-> "A4", refreshToken |-> "R4"]]

\* The refresh token request i of the call carries in its body.
SentRefreshToken(call, i) == call.log[i].body[2]

\* The endpoint has accepted the refresh token.
Used(token) ==
    \E d \in Calls : \E i \in 1..Len(calls[d].log) :
        /\ calls[d].log[i].kind = "refresh"
        /\ SentRefreshToken(calls[d], i) = token
        /\ IsResponse(calls[d].log[i].response)
        /\ Ok(calls[d].log[i].response.status)

RotatingResponses(call) ==
    IF call.log = <<>> THEN {}
    ELSE LET token == SentRefreshToken(call, Len(call.log))
         IN  IF token \in DOMAIN Rotation /\ ~Used(token)
             THEN { [status |-> 200,
                     body |-> [json |-> "object",
                               accessToken |-> Rotation[token].accessToken,
                               refreshToken |-> Rotation[token].refreshToken],
                     setCookie |-> NoSetCookie] }
             ELSE { [status |-> 403, body |-> [json |-> "object", message |-> "Forbidden"],
                     setCookie |-> NoSetCookie] }

\* The store of a signed-in user, in a context where cookies can be set.
InitRotation ==
    /\ InitRace
    /\ writable = TRUE

NextRotation ==
    \E c \in Calls :
        \/ fetchWithRefreshRetry(c, ConcurrentOptions, ConcurrentRefreshOptions)
        \/ refreshAndRetry(c, ConcurrentOptions, ConcurrentRefreshOptions)
        \/ fetchWithRefreshRetry_response(c, ConcurrentProtectedResponses)
        \/ refresh_readToken(c)
        \/ refresh_response(c, RotatingResponses(calls[c]))
        \/ refresh_setCookies(c)
        \/ retry_readToken(c)
        \/ retry_response(c, ConcurrentProtectedResponses)

SpecRotation == InitRotation /\ [][NextRotation]_vars

\* Both retry functions and refreshAndRetry, one call at a time.
NextRetries ==
    \E c \in Calls :
        \/ AllIdle /\ retry(c, OptionsChoices)
        \/ AllIdle /\ retry136(c, OptionsChoices)
        \/ AllIdle /\ refreshAndRetry(c, ConcurrentOptions, RefreshOptionsChoices)
        \/ refresh_readToken(c)
        \/ refresh_response(c, ConcurrentRefreshResponses)
        \/ refresh_setCookies(c)
        \/ retry_readToken(c)
        \/ retry136_readToken(c)
        \/ retry_response(c, ConcurrentProtectedResponses)
        \/ Returned(c)

SpecRetries == Init /\ [][NextRetries]_vars

\* ------------------------------------------------------------------------
\* Vocabulary of the properties

\* The requests of one kind among the requests a call has issued.
Sent(call, kind) == {i \in 1..Len(call.log) : call.log[i].kind = kind}

\* refresh has returned in this call.
RefreshReturned(call) == "success" \in DOMAIN call.refreshResult

\* The call has its result.
Done(call) == call.pc = "done"

\* The token configuration refresh works with in this call.
RefreshConfig(call) == TokenConfig(call.refreshOptions.tokenNames)

\* The refresh is under way in this call: refresh was called and has not
\* returned.
Refreshing(call) == call.pc \in {"refresh.cookies", "refresh.fetch", "refresh.set"}

\* ------------------------------------------------------------------------
\* C1: when two or more calls are refreshing at the same time, for the same
\* refresh URL and token configuration, the refresh request is issued once
\* for all of them (the part of the claim a state can show: the calls that
\* are refreshing together have issued one refresh request between them).
C1_SingleFlight ==
    \A c, d \in Calls :
        ( /\ c # d
          /\ Refreshing(calls[c]) /\ Refreshing(calls[d])
          /\ calls[c].refreshUrl = calls[d].refreshUrl
          /\ calls[c].refreshOptions = calls[d].refreshOptions )
        => Cardinality(Sent(calls[c], "refresh")) + Cardinality(Sent(calls[d], "refresh")) <= 1

\* C1 as amended: every call issues its own refresh request, whatever the
\* other calls are doing: a call that waits for the refresh endpoint, or
\* has its answer, has issued exactly one refresh request itself, and no
\* call issues more than one.
C1_OneRefreshPerCaller ==
    \A c \in Calls :
        /\ Cardinality(Sent(calls[c], "refresh")) <= 1
        /\ calls[c].pc \in {"refresh.fetch", "refresh.set", "retry.cookies", "retry.fetch"}
             => Cardinality(Sent(calls[c], "refresh")) = 1
        /\ (RefreshReturned(calls[c]) /\ calls[c].refreshResult.success)
             => Cardinality(Sent(calls[c], "refresh")) = 1

\* Two calls wait for the refresh endpoint at the same time, each for the
\* answer to its own request.
C1_Witness ==
    \E c, d \in Calls :
        /\ c # d
        /\ calls[c].pc = "refresh.fetch" /\ calls[d].pc = "refresh.fetch"
        /\ calls[c].refreshOptions = calls[d].refreshOptions
        /\ Cardinality(Sent(calls[c], "refresh")) = 1
        /\ Cardinality(Sent(calls[d], "refresh")) = 1

\* ------------------------------------------------------------------------
\* C2: after a refresh attempt has settled, with success or with failure, a
\* later call that needs a refresh runs its own attempt: when the store
\* holds a refresh token it issues a new refresh request and waits for that
\* request's own answer, and otherwise it fails for want of a refresh token;
\* the earlier outcome is neither waited for nor handed to it.
C2_NewAttemptAfterSettled ==
    [][\A c \in Calls :
         ( /\ settled # {}
           /\ calls[c].pc = "refresh.cookies"
           /\ calls'[c].pc # "refresh.cookies" )
         => IF Falsy(store[RefreshConfig(calls[c]).refreshTokenName])
            THEN /\ calls'[c].refreshResult = RefreshNoToken
                 /\ calls'[c].log = calls[c].log
            ELSE /\ calls'[c].pc = "refresh.fetch"
                 /\ Len(calls'[c].log) = Len(calls[c].log) + 1
                 /\ LastResponse(calls'[c]) = NoResponse
                 /\ calls'[c].log[Len(calls'[c].log)].kind = "refresh"
                 /\ calls'[c].log[Len(calls'[c].log)].url = calls[c].refreshUrl]_vars

\* An earlier refresh attempt has failed, one has succeeded, and a later
\* call waits for the answer to a refresh request of its own.
C2_Witness ==
    /\ settled = {"failure", "success"}
    /\ \E c \in Calls :
         /\ calls[c].pc = "refresh.fetch"
         /\ Cardinality(Sent(calls[c], "refresh")) = 1
         /\ LastResponse(calls[c]) = NoResponse

\* ------------------------------------------------------------------------
\* C3: a call of fetchWithRefreshRetry issues at most one initial request,
\* one refresh request and one retry, three requests in all, and once the
\* retried request has settled, whatever its answer, the call has returned.
C3_AtMostOneCycle ==
    \A c \in Calls :
        calls[c].op = "fetchWithRefreshRetry" =>
            /\ Cardinality(Sent(calls[c], "initial")) <= 1
            /\ Cardinality(Sent(calls[c], "refresh")) <= 1
            /\ Cardinality(Sent(calls[c], "retry")) <= 1
            /\ Len(calls[c].log) <= 3
            /\ \A i \in Sent(calls[c], "retry") :
                 calls[c].log[i].response # NoResponse
                    => (Done(calls[c]) /\ i = Len(calls[c].log))

\* A call of fetchWithRefreshRetry has returned after three requests, the
\* retried one answered with 401 and a message of expiry.
C3_Witness ==
    \E c \in Calls :
        /\ calls[c].op = "fetchWithRefreshRetry"
        /\ Done(calls[c])
        /\ Len(calls[c].log) = 3
        /\ calls[c].log[3].kind = "retry"
        /\ IsResponse(calls[c].log[3].response)
        /\ calls[c].log[3].response.status = 401
        /\ calls[c].log[3].response.body = [json |-> "object", message |-> "jwt expired"]

\* ------------------------------------------------------------------------
\* The access token a 2xx refresh response carries for this call: in JSON
\* mode the field of the configured name, in cookies mode the cookie of that
\* name.
CarriedAccessToken(call, response) ==
    IF call.refreshOptions.responseType = "cookies"
    THEN TokensFromCookies(response.setCookie, RefreshConfig(call)).access
    ELSE Get(response.body, RefreshConfig(call).accessTokenName)

\* C4: when the initial request of fetchWithRefreshRetry is answered with
\* 401, the refresh endpoint answers 2xx with a new access token A2, and the
\* retried request is answered 200 with body B, the call returns
\* success=true, status=200 and data=B, and the retried request carried the
\* Authorization header built from A2.
C4_RefreshThenRetrySucceeds ==
    \A c \in Calls :
        LET call == calls[c]
            A2 == CarriedAccessToken(call, call.log[2].response)
            B == call.log[3].response.body
        IN  ( /\ call.op = "fetchWithRefreshRetry"
              /\ Done(call)
              /\ Len(call.log) = 3
              /\ IsResponse(call.log[1].response)
              /\ call.log[1].response.status = 401
              /\ IsResponse(call.log[2].response)
              /\ Ok(call.log[2].response.status)
              /\ ~Falsy(A2)
              /\ IsResponse(call.log[3].response)
              /\ call.log[3].response.status = 200
              /\ B # Unparseable )
            => /\ call.result.success = TRUE
               /\ call.result.status = 200
               /\ call.result.data = B
               /\ call.log[3].kind = "retry"
               /\ call.log[3].url = call.url
               /\ call.log[3].headers.Authorization
                    = <<RefreshConfig(call).authHeaderFormat, A2>>

\* The scenario with the default options: 401, then a refresh answered
\* {accessToken: "A2", refreshToken: "R2"}, then the retry with
\* "Bearer A2" answered 200 {items: []}.
C4_Witness ==
    \E c \in Calls :
        LET call == calls[c]
        IN  /\ call.op = "fetchWithRefreshRetry"
            /\ Done(call)
            /\ Len(call.log) = 3
            /\ call.refreshOptions = NoRefreshOptions
            /\ call.log[1].response.status = 401
            /\ call.log[2].response =
                 [status |-> 200,
                  body |-> [json |-> "object", accessToken |-> "A2", refreshToken |-> "R2"],
                  setCookie |-> NoSetCookie]
            /\ call.log[3].headers.Authorization = <<"Bearer", "A2">>
            /\ call.log[3].response =
                 [status |-> 200, body |-> [json |-> "object", items |-> "[]"]]
            /\ call.result.success /\ call.result.status = 200
            /\ call.result.data = [json |-> "object", items |-> "[]"]

\* ------------------------------------------------------------------------
\* C5: when the refresh endpoint answers with a status that is not 2xx,
\* refresh returns success=false, error "Token refresh failed" and that
\* status, the store is as it was when the call began, and the call returns
\* that result without a retry request.
C5_RefreshRejected ==
    \A c \in Calls :
        LET call == calls[c]
        IN  \A i \in Sent(call, "refresh") :
              (IsResponse(call.log[i].response) /\ ~Ok(call.log[i].response.status))
              => /\ RefreshReturned(call)
                 /\ call.refreshResult.success = FALSE
                 /\ call.refreshResult.error = "Token refresh failed"
                 /\ call.refreshResult.status = call.log[i].response.status
                 /\ store = call.storeAtCall
                 /\ Sent(call, "retry") = {}
                 /\ Done(call)
                 /\ call.result = call.refreshResult

\* A call of fetchWithRefreshRetry has returned after a 401 and a refresh
\* request answered with 403.
C5_Witness ==
    \E c \in Calls :
        LET call == calls[c]
        IN  /\ call.op = "fetchWithRefreshRetry"
            /\ Done(call)
            /\ Len(call.log) = 2
            /\ call.log[1].response.status = 401
            /\ call.log[2].kind = "refresh"
            /\ IsResponse(call.log[2].response)
            /\ call.log[2].response.status = 403
            /\ call.result.error = "Token refresh failed"

\* ------------------------------------------------------------------------
\* C6: when the store holds no refresh token under the configured name,
\* refresh issues no request to the refresh endpoint, returns a failure and
\* leaves the store as it was.
C6_NoRefreshToken ==
    \A c \in Calls :
        LET call == calls[c]
        IN  ( /\ call.pc # "idle"
              /\ Falsy(call.storeAtCall[RefreshConfig(call).refreshTokenName]) )
            => /\ Sent(call, "refresh") = {}
               /\ store = call.storeAtCall
               /\ RefreshReturned(call)
                    => /\ call.refreshResult.success = FALSE
                       /\ call.refreshResult.error = "No refresh token available"

\* refresh has returned its failure in a call that began with an access
\* token and no refresh token in the store.
C6_Witness ==
    \E c \in Calls :
        LET call == calls[c]
        IN  /\ call.op = "refresh"
            /\ Done(call)
            /\ call.storeAtCall["accessToken"] = "A1"
            /\ call.storeAtCall[RefreshConfig(call).refreshTokenName] = Absent
            /\ call.result.success = FALSE
            /\ call.log = <<>>
            /\ store = call.storeAtCall

\* ------------------------------------------------------------------------
\* The refresh token a 2xx refresh response carries for this call, under
\* the configured name.
CarriedRefreshToken(call, response) ==
    IF call.refreshOptions.responseType = "cookies"
    THEN TokensFromCookies(response.setCookie, RefreshConfig(call)).refresh
    ELSE Get(response.body, RefreshConfig(call).refreshTokenName)

\* C7: when the refresh endpoint answers 2xx carrying a new access token A2
\* and a new refresh token R2, then once refresh has returned success=true
\* the store holds A2 under the access-token name and R2 under the
\* refresh-token name.
C7_StoreHoldsNewTokens ==
    \A c \in Calls :
        LET call == calls[c]
        IN  \A i \in Sent(call, "refresh") :
                LET response == call.log[i].response
                    A2 == CarriedAccessToken(call, response)
                    R2 == CarriedRefreshToken(call, response)
                IN  ( /\ RefreshReturned(call)
                      /\ call.refreshResult.success = TRUE
                      /\ IsResponse(response)
                      /\ Ok(response.status)
                      /\ ~Falsy(A2)
                      /\ ~Falsy(R2) )
                    => /\ store[RefreshConfig(call).accessTokenName] = A2
                       /\ store[RefreshConfig(call).refreshTokenName] = R2

\* refresh, called with "A1" and "R1" in the store, has returned
\* success=true after the answer {accessToken: "A2", refreshToken: "R2"},
\* and the store holds "A2" and "R2".
C7_Witness ==
    \E c \in Calls :
        LET call == calls[c]
        IN  /\ call.op = "refresh"
            /\ Done(call)
            /\ call.refreshOptions = NoRefreshOptions
            /\ call.storeAtCall["accessToken"] = "A1"
            /\ call.storeAtCall["refreshToken"] = "R1"
            /\ Len(call.log) = 1
            /\ call.log[1].response =
                 [status |-> 200,
                  body |-> [json |-> "object", accessToken |-> "A2", refreshToken |-> "R2"],
                  setCookie |-> NoSetCookie]
            /\ call.result.success = TRUE
            /\ store["accessToken"] = "A2"
            /\ store["refreshToken"] = "R2"

\* ------------------------------------------------------------------------
\* A 2xx refresh response that carries no access token for this call: in
\* JSON mode no recognized field of the body has a value, in cookies mode
\* there is no Set-Cookie header or no cookie of the access-token name with
\* a value.
NoAccessTokenCarried(call, response) ==
    IF call.refreshOptions.responseType = "cookies"
    THEN \A i \in 1..Len(response.setCookie) :
            response.setCookie[i][1][1] = RefreshConfig(call).accessTokenName
                => Falsy(response.setCookie[i][1][2])
    ELSE \A field \in {RefreshConfig(call).accessTokenName, "accessToken",
                       "token", "access_token"} :
            Falsy(Get(response.body, field))

\* The refresh requests of a call that were answered 200 without an access
\* token, refresh having returned.
MalformedRefreshes(call) ==
    {i \in Sent(call, "refresh") :
        /\ RefreshReturned(call)
        /\ IsResponse(call.log[i].response)
        /\ call.log[i].response.status = 200
        /\ NoAccessTokenCarried(call, call.log[i].response)}

\* The error refresh.ts reports for such a response.
MalformedRefreshError(call, response) ==
    IF call.refreshOptions.responseType = "cookies"
    THEN IF response.setCookie = NoSetCookie
         THEN "No cookies returned from refresh endpoint"
         ELSE "Access token not found in cookies (looking for: "
                \o RefreshConfig(call).accessTokenName \o ")"
    ELSE IF response.body \in {JsonNull, Unparseable}
         THEN "Request failed"
         ELSE "Access token not found in response (looking for: "
                \o RefreshConfig(call).accessTokenName \o ")"

\* C8 as stated: when the refresh endpoint answers 200 without an access
\* token, refresh returns success=false with an error mentioning
\* MalformedRefreshResponse and the store is left unchanged.
C8_MalformedRefreshResponse ==
    \A c \in Calls :
        LET call == calls[c]
        IN  \A i \in MalformedRefreshes(call) :
                /\ call.refreshResult.success = FALSE
                /\ Includes(call.refreshResult.error, "MalformedRefreshResponse")
                /\ store = call.storeAtCall

\* C8 amended: when the refresh endpoint answers 200 without an access
\* token, refresh returns success=false, status 500 and data null, with the
\* error "Access token not found in response (looking for: <name>)" for a
\* JSON object, "Request failed" for a body that is null or not JSON,
\* "No cookies returned from refresh endpoint" or "Access token not found
\* in cookies (looking for: <name>)" in cookies mode; the store is left
\* unchanged and no retry is sent.
C8_MissingAccessToken ==
    \A c \in Calls :
        LET call == calls[c]
        IN  \A i \in MalformedRefreshes(call) :
                /\ call.refreshResult.success = FALSE
                /\ call.refreshResult.status = 500
                /\ call.refreshResult.data = JsonNull
                /\ call.refreshResult.error
                     = MalformedRefreshError(call, call.log[i].response)
                /\ store = call.storeAtCall
                /\ Sent(call, "retry") = {}

\* refresh has returned after a 200 answer {message: "ok"} in JSON mode
\* with the default names, where cookies can be set.
C8_Witness ==
    \E c \in Calls :
        LET call == calls[c]
        IN  /\ call.op = "refresh"
            /\ Done(call)
            /\ writable
            /\ call.refreshOptions = NoRefreshOptions
            /\ MalformedRefreshes(call) = {1}
            /\ call.log[1].response.body = [json |-> "object", message |-> "ok"]
            /\ call.result.error
                 = "Access token not found in response (looking for: accessToken)"
            /\ store = call.storeAtCall

\* ------------------------------------------------------------------------
\* C9 as stated: every result returned by refresh, retry, refreshAndRetry
\* and fetchWithRefreshRetry has, with success=true, data present and error
\* absent, and with success=false, error present.
C9_OperationResult ==
    \A c \in Calls :
        LET call == calls[c]
        IN  Done(call)
            => /\ call.result.success = TRUE
                    => /\ call.result.data # JsonNull
                       /\ call.result.error = Null
               /\ call.result.success = FALSE
                    => ~Falsy(call.result.error)

\* C9 amended: a result with success=true has error null, and its data is
\* null when refresh returned it and the parsed body of the last response
\* (null for a body that is JSON null) otherwise; a result with
\* success=false has a non-empty error and data null.
C9_ResultShape ==
    \A c \in Calls :
        LET call == calls[c]
        IN  /\ Done(call)
                => /\ call.result.success = TRUE
                        => /\ call.result.error = Null
                           /\ call.result.data = IF call.op = "refresh" THEN JsonNull
                                                 ELSE LastResponse(call).body
                   /\ call.result.success = FALSE
                        => /\ ~Falsy(call.result.error)
                           /\ call.result.data = JsonNull
            /\ RefreshReturned(call)
                => /\ call.refreshResult.data = JsonNull
                   /\ call.refreshResult.success = TRUE
                        => call.refreshResult.error = Null
                   /\ call.refreshResult.success = FALSE
                        => ~Falsy(call.refreshResult.error)

\* refresh has returned success=true with data null and error null, the
\* new access token stored.
C9_Witness ==
    \E c \in Calls :
        LET call == calls[c]
        IN  /\ call.op = "refresh"
            /\ Done(call)
            /\ call.result.success = TRUE
            /\ call.result.data = JsonNull
            /\ call.result.error = Null
            /\ store["accessToken"] = "A2"

\* retry has returned "Request failed" for a non-2xx answer whose message
\* and error are empty.
C9_WitnessFallback ==
    \E c \in Calls :
        LET call == calls[c]
        IN  /\ call.op = "retry"
            /\ Done(call)
            /\ LastResponse(call) = [status |-> 403,
                                     body |-> [json |-> "object", message |-> "",
                                               error |-> ""]]
            /\ call.result.success = FALSE
            /\ call.result.error = "Request failed"

\* ------------------------------------------------------------------------
\* C10: no exception escapes refresh, retry, refreshAndRetry or
\* fetchWithRefreshRetry: after a network error, an unparseable body or a
\* cookie store that throws, the call returns a result with success=false.
C10_NoExceptionEscapes ==
    \A c \in Calls :
        LET call == calls[c]
        IN  /\ call.pc # "thrown"
            /\ call.exc # "none"
                => /\ Done(call)
                   /\ call.result.success = FALSE
            /\ \A i \in 1..Len(call.log) :
                   call.log[i].response = NetworkError
                       => /\ Done(call)
                          /\ call.result.success = FALSE
            /\ ( /\ Done(call)
                 /\ call.log # <<>>
                 /\ IsResponse(LastResponse(call))
                 /\ LastResponse(call).body = Unparseable )
                => call.result.success = FALSE
            /\ (~writable /\ Sent(call, "refresh") # {})
                => /\ Sent(call, "retry") = {}
                   /\ Done(call) => call.result.success = FALSE

\* fetchWithRefreshRetry has returned a failure after the cookie store
\* threw on set, the refresh endpoint having answered with new tokens.
C10_Witness ==
    \E c \in Calls :
        LET call == calls[c]
        IN  /\ call.op = "fetchWithRefreshRetry"
            /\ Done(call)
            /\ call.exc = "store"
            /\ ~writable
            /\ Len(call.log) = 2
            /\ call.log[2].response.status = 200
            /\ call.result.success = FALSE
            /\ call.result.error = "Request failed"

\* ------------------------------------------------------------------------
\* The call has gone into refresh: refresh is reading the store, has sent
\* its request or has returned.
RefreshAttempted(call) ==
    \/ call.pc = "refresh.cookies"
    \/ Sent(call, "refresh") # {}
    \/ RefreshReturned(call)

\* The initial fetch of a fetchWithRefreshRetry call has been answered.
InitialAnswered(call) ==
    /\ call.op = "fetchWithRefreshRetry"
    /\ call.log # <<>>
    /\ IsResponse(call.log[1].response)

\* C11: in fetchWithRefreshRetry an initial 401 always leads to a refresh
\* attempt, whatever its body, and an initial 2xx never leads to a refresh
\* request or a retry: the call returns success=true with that response's
\* status and parsed body.
C11_InitialStatus ==
    \A c \in Calls :
        LET call == calls[c]
            initial == call.log[1].response
        IN  InitialAnswered(call)
            => /\ initial.status = 401 => RefreshAttempted(call)
               /\ Ok(initial.status)
                    => /\ ~RefreshAttempted(call)
                       /\ Sent(call, "retry") = {}
                       /\ Done(call)
                       /\ call.result.success = TRUE
                       /\ call.result.status = initial.status
                       /\ call.result.data = initial.body

\* ------------------------------------------------------------------------
\* The initial fetch of a fetchWithRefreshRetry call has been answered with
\* a status that is neither 2xx nor 401.
InitialRejected(call) ==
    /\ InitialAnswered(call)
    /\ ~Ok(call.log[1].response.status)
    /\ call.log[1].response.status # 401

\* The message field of the body of the call's initial response.
InitialMessage(call) == Get(call.log[1].response.body, "message")

\* C12 as stated: an initial non-2xx response other than 401 leads to a
\* refresh attempt if and only if the message of its body contains "expire"
\* compared case-insensitively.
C12_ExpireIgnoringCase ==
    \A c \in Calls :
        LET call == calls[c]
        IN  InitialRejected(call)
            => ( RefreshAttempted(call)
                 <=> /\ InitialMessage(call) # Absent
                     /\ Includes(ToLowerCase(InitialMessage(call)), "expire") )

\* C12 amended: an initial non-2xx response other than 401 leads to a
\* refresh attempt if and only if the message of its body contains "expire"
\* exactly as written, in lower case.
C12_ExpireCaseSensitive ==
    \A c \in Calls :
        LET call == calls[c]
        IN  InitialRejected(call)
            => ( RefreshAttempted(call)
                 <=> /\ InitialMessage(call) # Absent
                     /\ Includes(InitialMessage(call), "expire") )

\* An initial 403 with the message "Token Expired" has ended the call
\* without a refresh attempt.
C12_Witness ==
    \E c \in Calls :
        LET call == calls[c]
        IN  /\ InitialRejected(call)
            /\ call.log[1].response.status = 403
            /\ InitialMessage(call) = "Token Expired"
            /\ Done(call)
            /\ ~RefreshAttempted(call)
            /\ call.result.success = FALSE

\* An initial 403 with the message "jwt expired" has led to a refresh.
C12_WitnessRefresh ==
    \E c \in Calls :
        LET call == calls[c]
        IN  /\ InitialRejected(call)
            /\ InitialMessage(call) = "jwt expired"
            /\ Sent(call, "refresh") # {}

\* ------------------------------------------------------------------------
\* The call's initial response is a non-2xx other than 401 whose message
\* does not contain the marker "expire".
InitialHardFailure(call) ==
    /\ InitialRejected(call)
    /\ ~Includes(InitialMessage(call), "expire")

\* C13 as stated: an initial non-2xx, non-401 response without the marker
\* ends the call as a failure with no refresh request; the error is the
\* message parsed from the body, or "Request failed" when the body is
\* malformed, not JSON or has no message.
C13_ParsedMessage ==
    \A c \in Calls :
        LET call == calls[c]
        IN  InitialHardFailure(call)
            => /\ Done(call)
               /\ call.result.success = FALSE
               /\ Sent(call, "refresh") = {}
               /\ call.result.error = IF Falsy(InitialMessage(call))
                                      THEN "Request failed"
                                      ELSE InitialMessage(call)

\* C13 amended: such a response ends the call as a failure with no refresh
\* attempt and no second request; the call does not throw, and whatever the
\* body is, the error is "Authentication failed", data is null and no
\* status is reported.
C13_AuthenticationFailed ==
    \A c \in Calls :
        LET call == calls[c]
        IN  InitialHardFailure(call)
            => /\ Done(call)
               /\ ~RefreshAttempted(call)
               /\ Len(call.log) = 1
               /\ call.result.success = FALSE
               /\ call.result.error = "Authentication failed"
               /\ call.result.data = JsonNull
               /\ "status" \notin DOMAIN call.result

\* An initial 403 {message: "Forbidden"} has ended the call with the error
\* "Authentication failed".
C13_Witness ==
    \E c \in Calls :
        LET call == calls[c]
        IN  /\ InitialHardFailure(call)
            /\ call.log[1].response =
                 [status |-> 403, body |-> [json |-> "object", message |-> "Forbidden"]]
            /\ Done(call)
            /\ call.exc = "none"
            /\ call.result.error = "Authentication failed"

\* An initial 403 whose body is not JSON has ended the call the same way.
C13_WitnessNotJson ==
    \E c \in Calls :
        LET call == calls[c]
        IN  /\ InitialHardFailure(call)
            /\ call.log[1].response.body = Unparseable
            /\ Done(call)
            /\ call.exc = "parse"
            /\ call.result.error = "Authentication failed"

\* ------------------------------------------------------------------------
\* The retried requests a call sent after its refresh succeeded.
RetriesAfterRefresh(call) ==
    {i \in Sent(call, "retry") :
        /\ call.op \in {"refreshAndRetry", "fetchWithRefreshRetry"}
        /\ RefreshReturned(call)
        /\ call.refreshResult.success = TRUE}

\* The Authorization header computed from the access token now stored.
NewAuthorization(call) ==
    <<RefreshConfig(call).authHeaderFormat, store[RefreshConfig(call).accessTokenName]>>

\* C14 as stated: the retried request after a refresh has the URL, method
\* and body of the original request, its Authorization header is the newly
\* computed one, and Content-Type and Accept are set to JSON only when the
\* original request did not supply them.
C14_OnlyAuthorizationReplaced ==
    \A c \in Calls :
        LET call == calls[c]
        IN  \A i \in RetriesAfterRefresh(call) :
                /\ call.log[i].url = call.url
                /\ call.log[i].method = call.options.method
                /\ call.log[i].body = call.options.body
                /\ call.log[i].headers.Authorization = NewAuthorization(call)
                /\ call.log[i].headers.ContentType
                     = IF call.options.headers.ContentType # Absent
                       THEN call.options.headers.ContentType ELSE "application/json"
                /\ call.log[i].headers.Accept
                     = IF call.options.headers.Accept # Absent
                       THEN call.options.headers.Accept ELSE "application/json"

\* C14 amended: the retried request after a refresh has the URL, method and
\* body of the original request, its Authorization header is the newly
\* computed one, and Content-Type and Accept are always application/json,
\* whatever the original request supplied.
C14_RetriedRequest ==
    \A c \in Calls :
        LET call == calls[c]
        IN  \A i \in RetriesAfterRefresh(call) :
                /\ call.log[i].url = call.url
                /\ call.log[i].method = call.options.method
                /\ call.log[i].body = call.options.body
                /\ call.log[i].headers.Authorization = NewAuthorization(call)
                /\ call.log[i].headers.ContentType = "application/json"
                /\ call.log[i].headers.Accept = "application/json"

\* A POST with Content-Type text/plain and the header "Bearer A1" has been
\* retried after a refresh, with Content-Type application/json and the
\* header of the new token.
C14_Witness ==
    \E c \in Calls :
        LET call == calls[c]
        IN  /\ call.op = "fetchWithRefreshRetry"
            /\ call.options.headers.ContentType = "text/plain"
            /\ call.options.headers.Authorization = <<"Bearer", "A1">>
            /\ call.refreshOptions = NoRefreshOptions
            /\ RetriesAfterRefresh(call) = {3}
            /\ call.log[3].method = "POST"
            /\ call.log[3].body = JsonBody("book", "b1")
            /\ call.log[3].headers.ContentType = "application/json"
            /\ call.log[3].headers.Authorization = <<"Bearer", "A2">>

\* ------------------------------------------------------------------------
\* The call's refresh has succeeded and its retry has not yet read the
\* store.
AwaitingRetryRead(call) ==
    /\ call.op \in {"refreshAndRetry", "fetchWithRefreshRetry"}
    /\ call.pc = "retry.cookies"

\* C15: in every interleaving of concurrent calls, a retry that follows a
\* successful refresh sends the access token written by that refresh or by
\* a later one, never the token stored before and never a request without
\* an Authorization header.  Step by step: when the refresh of a call
\* returns success the store holds the token it extracted; until the retry
\* of that call reads the store, the stored token changes only when the
\* refresh of another call writes its own; and the retry sends the token
\* the store holds when it reads.
C15_RetryReadsFreshToken ==
    [][ \A c \in Calls :
           LET call == calls[c]
               name == RefreshConfig(call).accessTokenName
               sent == calls'[c].log[Len(calls'[c].log)].headers.Authorization
           IN  /\ (call.pc = "refresh.set" /\ AwaitingRetryRead(calls'[c]))
                    => store'[name] = call.newAccessToken
               /\ (AwaitingRetryRead(call) /\ store'[name] # store[name])
                    => \E d \in Calls \ {c} :
                          /\ calls[d].pc = "refresh.set"
                          /\ calls'[d].pc # "refresh.set"
                          /\ store'[name] = calls[d].newAccessToken
               /\ (AwaitingRetryRead(call) /\ calls'[c].pc = "retry.fetch")
                    => /\ ~Falsy(store[name])
                       /\ sent = <<RefreshConfig(call).authHeaderFormat, store[name]>>
      ]_vars

\* Two calls began with "A1" stored; the refresh of one wrote "A2", then
\* the refresh of the other wrote "A3", and the retry of the first was sent
\* with "Bearer A3".
C15_Witness ==
    \E c \in Calls, d \in Calls :
        /\ c # d
        /\ calls[c].storeAtCall["accessToken"] = "A1"
        /\ calls[d].storeAtCall["accessToken"] = "A1"
        /\ calls[c].newAccessToken = "A2"
        /\ calls[d].newAccessToken = "A3"
        /\ calls[c].pc = "retry.fetch"
        /\ calls[c].log[2].headers.Authorization = <<"Bearer", "A3">>
        /\ calls[d].pc = "retry.fetch"
        /\ calls[d].log[2].headers.Authorization = <<"Bearer", "A3">>

\* ------------------------------------------------------------------------
\* The result has the flag and the flag is true.
Flagged(result, flag) == flag \in DOMAIN result /\ result[flag] = TRUE

\* refreshAndRetry or fetchWithRefreshRetry has returned after its refresh
\* failed.
ReturnedAfterFailedRefresh(call) ==
    /\ call.op \in {"refreshAndRetry", "fetchWithRefreshRetry"}
    /\ Done(call)
    /\ RefreshReturned(call)
    /\ call.refreshResult.success = FALSE

\* The refresh of the call found no refresh token in the store.
NoRefreshTokenStored(call) ==
    Falsy(call.storeAtCall[RefreshConfig(call).refreshTokenName])

\* The refresh endpoint answered the call's refresh request with a status
\* that is not 2xx.
RefreshEndpointRejected(call) ==
    \E i \in Sent(call, "refresh") :
        /\ IsResponse(call.log[i].response)
        /\ ~Ok(call.log[i].response.status)

\* C16: when the refresh fails because no refresh token is stored or the
\* refresh endpoint rejected the request, the result of refreshAndRetry /
\* fetchWithRefreshRetry carries the refresh failure's reason as its error
\* and a flag saying re-authentication is required; for other refresh
\* failures the flag is not set.
C16_ReauthenticationFlag ==
    \A c \in Calls :
        LET call == calls[c]
        IN  ReturnedAfterFailedRefresh(call)
            => /\ call.result.error = call.refreshResult.error
               /\ Flagged(call.result, "needsLogin")
                    <=> (NoRefreshTokenStored(call) \/ RefreshEndpointRejected(call))

\* ------------------------------------------------------------------------
\* The retried requests of a call, sent after its refresh succeeded, that
\* were answered with 401.
RejectedRetries(call) ==
    {i \in RetriesAfterRefresh(call) :
        /\ IsResponse(call.log[i].response)
        /\ call.log[i].response.status = 401}

\* C17: when the retried request after a successful refresh is itself
\* answered with 401, fetchWithRefreshRetry returns a failure that carries
\* the needsLogin signal and performs no further refresh or retry.
C17_SecondUnauthorized ==
    \A c \in Calls :
        LET call == calls[c]
        IN  (call.op = "fetchWithRefreshRetry" /\ RejectedRetries(call) # {})
            => /\ Done(call)
               /\ call.result.success = FALSE
               /\ Flagged(call.result, "needsLogin")
               /\ Cardinality(Sent(call, "refresh")) = 1
               /\ Cardinality(Sent(call, "retry")) = 1

\* ------------------------------------------------------------------------
\* retry has returned in this call.
RetryReturned(call) == Done(call) /\ Sent(call, "retry") # {}

\* The retried request failed with an exception: fetch rejected, the body
\* is not JSON, or the body of a non-2xx answer is null and has no fields
\* to read.
RetryFailedWithException(call) ==
    LET response == LastResponse(call)
    IN  \/ response = NetworkError
        \/ /\ IsResponse(response)
           /\ \/ response.body = Unparseable
              \/ ~Ok(response.status) /\ response.body = JsonNull

C18_WitnessNetworkError ==
    \E c \in Calls :
        LET call == calls[c]
        IN  /\ call.op = "retry"
            /\ RetryReturned(call)
            /\ LastResponse(call) = NetworkError
            /\ Flagged(call.result, "needsLogin")
            /\ "status" \notin DOMAIN call.result

\* ------------------------------------------------------------------------
\* The token names an operation works with.
OperationTokenConfig(call) ==
    IF call.op = "refreshTokenMiddleware"
    THEN FinalTokenConfig(call.config, call.refreshOptions)
    ELSE RefreshConfig(call)

ServerFunctions == {"refresh", "refreshAndRetry", "fetchWithRefreshRetry"}

\* The operation went to refresh and found no refresh token.
FoundNoRefreshToken(call) ==
    /\ Falsy(call.storeAtCall[OperationTokenConfig(call).refreshTokenName])
    /\ \/ call.op \in ServerFunctions /\ RefreshReturned(call)
       \/ call.op = "refreshTokenMiddleware" /\ call.exc # "none"

\* The operation has returned with re-authentication required: it found no
\* refresh token, the refresh endpoint rejected its request, or its retry
\* after the refresh was answered with 401.
NeedsReauthentication(call) ==
    /\ Done(call)
    /\ call.op \in ServerFunctions \cup {"refreshTokenMiddleware"}
    /\ \/ FoundNoRefreshToken(call)
       \/ RefreshEndpointRejected(call)
       \/ RejectedRetries(call) # {}

\* Neither token is in the store under the operation's names.
CredentialsCleared(call) ==
    /\ store[OperationTokenConfig(call).accessTokenName] = Absent
    /\ store[OperationTokenConfig(call).refreshTokenName] = Absent

C19_WitnessStillStored ==
    \E c \in Calls :
        LET call == calls[c]
        IN  /\ call.op = "refresh"
            /\ NeedsReauthentication(call)
            /\ RefreshEndpointRejected(call)
            /\ call.refreshOptions = NoRefreshOptions
            /\ store["accessToken"] = "A1"
            /\ store["refreshToken"] = "R1"

\* ------------------------------------------------------------------------
\* The refresh request of the operation failed with a network error.
RefreshNetworkError(call) ==
    \E i \in Sent(call, "refresh") : call.log[i].response = NetworkError

\* C20: when a refresh attempt fails with a transient network error, the
\* stored credentials are left as they were, by the server functions and by
\* refreshTokenMiddleware alike, and the error is surfaced to the caller.
C20_NetworkErrorKeepsCredentials ==
    \A c \in Calls :
        LET call == calls[c]
        IN  (Done(call) /\ RefreshNetworkError(call))
            => /\ store = call.storeAtCall
               /\ call.op \in ServerFunctions
                    => /\ call.result.success = FALSE
                       /\ ~Falsy(call.result.error)

\* ------------------------------------------------------------------------
\* Vocabulary of the inbound requests

Middlewares == {"refreshTokenMiddleware", "refreshTokenMiddleware001"}

\* The cookie names the middleware of the call works with.
InboundNames(call) ==
    IF call.op = "refreshTokenMiddleware001"
    THEN Names001(call.config)
    ELSE LET tokenConfig == FinalTokenConfig(call.config, call.refreshOptions)
         IN  [accessToken |-> tokenConfig.accessTokenName,
              refreshToken |-> tokenConfig.refreshTokenName]

\* The cookie of that name on the inbound request.
InboundCookie(call, name) ==
    IF name \in DOMAIN call.storeAtCall THEN call.storeAtCall[name] ELSE Absent

\* The path of the call is one its configuration protects, and not the
\* login path.
Guarded(call) ==
    /\ call.url # LoginPath(call.config)
    /\ IF call.op = "refreshTokenMiddleware001"
       THEN shouldProtectPath(call.url, call.config.protectedPaths)
       ELSE IsProtected(call.url, call.config.protectedPaths)

\* The token is a JWT whose exp claim is before now.
ExpiredAt(token, now) ==
    LET payload == JwtPayload(token)
    IN  /\ payload # Unparseable
        /\ "exp" \in DOMAIN payload
        /\ payload.exp < now

\* The access cookie of the inbound request is present but expired: at the
\* time the call read the clock, or at every time when it read none.
AccessCookieExpired(call) ==
    LET token == InboundCookie(call, InboundNames(call).accessToken)
    IN  /\ ~Falsy(token)
        /\ IF call.op = "refreshTokenMiddleware001"
           THEN ExpiredAt(token, call.now)
           ELSE \A now \in Times : ExpiredAt(token, now)

\* The refresh endpoint accepted request i of the call: a 2xx response the
\* middleware finds a new access token in.
RefreshAccepted(call, i) ==
    LET response == call.log[i].response
    IN  IF call.op = "refreshTokenMiddleware001"
        THEN /\ MiddlewareOutcome001(response).kind = "tokens"
             /\ ~Falsy(MiddlewareOutcome001(response).tokens.access)
        ELSE RefreshOutcome(response, call.refreshOptions.responseType,
                            FinalTokenConfig(call.config, call.refreshOptions)).kind
                = "tokens"

\* The inbound request has a refresh cookie and the refresh endpoint
\* accepts whatever refresh request the call sends.
RefreshCookieValid(call) ==
    /\ ~Falsy(InboundCookie(call, InboundNames(call).refreshToken))
    /\ \A i \in Sent(call, "refresh") : RefreshAccepted(call, i)

\* C21: for an inbound request to a protected path whose access cookie is
\* present but expired and whose refresh cookie is valid, the middleware
\* calls the refresh endpoint and returns a pass-through response, not a
\* redirect, that carries the new access cookie.
C21_ExpiredAccessCookieRefreshed ==
    \A c \in Calls :
        LET call == calls[c]
        IN  (/\ call.op \in Middlewares
             /\ Done(call)
             /\ Guarded(call)
             /\ AccessCookieExpired(call)
             /\ RefreshCookieValid(call))
            => /\ Sent(call, "refresh") # {}
               /\ call.result.kind = "next"
               /\ ~Falsy(call.newAccessToken)
               /\ store[InboundNames(call).accessToken] = call.newAccessToken

\* The inbound request of the call carries no refresh cookie.
NoRefreshCookie(call) == Falsy(InboundCookie(call, InboundNames(call).refreshToken))

\* The call ended with a redirect to the login path and neither cookie is
\* left.
RedirectedAndCleared(call) ==
    /\ call.result = MiddlewareRedirect(call.config)
    /\ \A name \in {InboundNames(call).accessToken, InboundNames(call).refreshToken} :
         name \in DOMAIN store => store[name] = Absent

\* The access cookie lets the request through: present for
\* refreshTokenMiddleware.ts, present and not expired for part_001.
AccessCookieAccepted(call) ==
    LET token == InboundCookie(call, InboundNames(call).accessToken)
    IN  /\ ~Falsy(token)
        /\ call.op = "refreshTokenMiddleware001"
             => ~defaultIsTokenExpired(token, call.now)

\* C22: an inbound request to a protected path other than the login path
\* that carries no refresh cookie is answered with a redirect to the
\* configured login path with the access and the refresh cookie cleared,
\* whatever the state of the access cookie.
C22_NoRefreshCookieRedirects ==
    \A c \in Calls :
        LET call == calls[c]
        IN  (/\ call.op \in Middlewares
             /\ Done(call)
             /\ Guarded(call)
             /\ NoRefreshCookie(call))
            => RedirectedAndCleared(call)

\* C22 as the code has it: without a refresh cookie the request passes
\* through untouched when its access cookie is accepted.  Otherwise
\* refreshTokenMiddleware.ts sends no refresh request and redirects with
\* both cookies cleared; part_001, which never looks at the refresh
\* cookie, sends its refresh request all the same and redirects with both
\* cookies cleared exactly when that request fails (with an empty
\* refresh-token name it redirects at once and clears nothing).
C22_RedirectUnlessAccessCookie ==
    \A c \in Calls :
        LET call == calls[c]
        IN  (/\ call.op \in Middlewares
             /\ Done(call)
             /\ Guarded(call)
             /\ NoRefreshCookie(call))
            => IF call.op = "refreshTokenMiddleware001"
                  /\ Falsy(InboundNames(call).refreshToken)
               THEN /\ call.result = MiddlewareRedirect(call.config)
                    /\ store = call.storeAtCall
                    /\ call.log = <<>>
               ELSE IF AccessCookieAccepted(call)
               THEN /\ call.result = MiddlewareNext
                    /\ store = call.storeAtCall
                    /\ call.log = <<>>
               ELSE IF call.op = "refreshTokenMiddleware"
               THEN /\ RedirectedAndCleared(call)
                    /\ call.log = <<>>
               ELSE /\ Sent(call, "refresh") # {}
                    /\ RedirectedAndCleared(call)
                         <=> MiddlewareOutcome001(LastResponse(call)).kind = "throw"

\* A request without cookies to a protected path has been redirected by
\* refreshTokenMiddleware.ts.
C22_Witness ==
    \E c \in Calls :
        LET call == calls[c]
        IN  /\ call.op = "refreshTokenMiddleware"
            /\ Done(call)
            /\ Guarded(call)
            /\ NoRefreshCookie(call)
            /\ ~AccessCookieAccepted(call)
            /\ RedirectedAndCleared(call)

\* A request with an access cookie and no refresh cookie has passed through.
C22_WitnessPassThrough ==
    \E c \in Calls :
        LET call == calls[c]
        IN  /\ call.op \in Middlewares
            /\ Done(call)
            /\ Guarded(call)
            /\ NoRefreshCookie(call)
            /\ AccessCookieAccepted(call)
            /\ call.result = MiddlewareNext

\* The method of the refresh requests of the call: POST unless the refresh
\* options give another.
RefreshMethod(call) ==
    IF call.refreshOptions.method # Absent THEN call.refreshOptions.method ELSE "POST"

\* The body refresh builds: the refresh token stored when the call began,
\* under the configured name.
BuiltRefreshBody(call) ==
    JsonBody(RefreshConfig(call).refreshTokenName,
             call.storeAtCall[RefreshConfig(call).refreshTokenName])

\* C23: the refresh request uses method POST unless the caller's refresh
\* options give another method, and its body is the one built from the
\* stored refresh token unless the refresh options supply a body, in which
\* case the caller's body is sent.
C23_CallerBodySent ==
    \A c \in Calls :
        LET call == calls[c]
        IN  call.op \in ServerFunctions
            => \A i \in Sent(call, "refresh") :
                 /\ call.log[i].method = RefreshMethod(call)
                 /\ call.log[i].body = IF call.refreshOptions.body # NoBody
                                       THEN call.refreshOptions.body
                                       ELSE BuiltRefreshBody(call)

\* What the code does instead (C23): the method is POST unless the refresh
\* options give another, and the body is always the one built from the
\* stored refresh token; a body in the refresh options is never sent.
C23_BodyAlwaysBuilt ==
    \A c \in Calls :
        LET call == calls[c]
        IN  call.op \in ServerFunctions
            => \A i \in Sent(call, "refresh") :
                 /\ call.log[i].method = RefreshMethod(call)
                 /\ call.log[i].body = BuiltRefreshBody(call)

\* A refresh request has been sent for a caller whose refresh options have
\* a method and a body of their own.
C23_Witness ==
    \E c \in Calls :
        LET call == calls[c]
        IN  /\ call.op \in ServerFunctions
            /\ Sent(call, "refresh") # {}
            /\ call.refreshOptions.method = "PATCH"
            /\ call.refreshOptions.body # NoBody
            /\ call.refreshOptions.body # BuiltRefreshBody(call)

\* The name the call is configured to send and store the refresh token
\* under.
RefreshTokenName(call) ==
    IF call.op \in Middlewares THEN InboundNames(call).refreshToken
    ELSE RefreshConfig(call).refreshTokenName

\* C24: every refresh request, of refresh and of refreshTokenMiddleware,
\* carries in its body the refresh token value held in the store (the
\* inbound refresh cookie) under the configured refresh-token field name,
\* never a constant or the cookie's name in place of the value.
C24_RefreshTokenValueSent ==
    \A c \in Calls :
        LET call == calls[c]
        IN  \A i \in Sent(call, "refresh") :
              /\ ~Falsy(InboundCookie(call, RefreshTokenName(call)))
              /\ call.log[i].body
                    = JsonBody(RefreshTokenName(call),
                               InboundCookie(call, RefreshTokenName(call)))

\* What holds instead of C24: refresh and refreshTokenMiddleware.ts send
\* the stored value under the configured name; part_001 sends the cookie's
\* name under the field name "refreshToken", whatever the cookies are.
C24_NameSentByPart001 ==
    \A c \in Calls :
        LET call == calls[c]
        IN  \A i \in Sent(call, "refresh") :
              IF call.op = "refreshTokenMiddleware001"
              THEN call.log[i].body = JsonBody("refreshToken", RefreshTokenName(call))
              ELSE /\ ~Falsy(InboundCookie(call, RefreshTokenName(call)))
                   /\ call.log[i].body
                        = JsonBody(RefreshTokenName(call),
                                   InboundCookie(call, RefreshTokenName(call)))

\* ------------------------------------------------------------------------
\* Vocabulary of the callers of refreshAndRetry

\* What the caller of the call gave: the refresh URL and options, the URL
\* and options of the request to retry.
CallerRequest(call) ==
    IF call.op = "refreshAndRetryRequest"
    THEN [refreshUrl |-> call.request.refreshUrl,
          refreshOptions |-> call.request.refreshOptions,
          retryUrl |-> call.request.retryUrl,
          retryOptions |-> call.request.retryOptions]
    ELSE [refreshUrl |-> call.refreshUrl,
          refreshOptions |-> [k \in DOMAIN NoInit |-> call.refreshOptions[k]],
          retryUrl |-> call.url,
          retryOptions |-> [k \in DOMAIN NoInit |-> call.options[k]]]

\* Request i of the call is a refresh request to the caller's refresh URL
\* with the caller's refresh options.
RefreshAsGiven(call, i) ==
    LET given == CallerRequest(call)
    IN  /\ call.log[i].url = given.refreshUrl
        /\ call.log[i].method = IF given.refreshOptions.method # Absent
                                THEN given.refreshOptions.method ELSE "POST"

\* Request i of the call is a retry to the caller's retry URL with the
\* caller's retry options.
RetryAsGiven(call, i) ==
    LET given == CallerRequest(call)
    IN  /\ call.log[i].url = given.retryUrl
        /\ call.log[i].method = given.retryOptions.method
        /\ call.log[i].body = given.retryOptions.body

\* C25: for every caller of refreshAndRetry, fetchWithRefreshRetry and the
\* provider's refreshAndRetryRequest, the refresh request is sent to the
\* refresh URL with the refresh options, the retried request to the retry
\* URL with the retry options, and the refresh request comes first.
C25_RefreshThenRetryAsGiven ==
    \A c \in Calls :
        LET call == calls[c]
        IN  call.op \in {"fetchWithRefreshRetry", "refreshAndRetry",
                         "refreshAndRetryRequest"}
            => /\ \A i \in Sent(call, "refresh") : RefreshAsGiven(call, i)
               /\ \A j \in Sent(call, "retry") : RetryAsGiven(call, j)
               /\ \A i \in Sent(call, "refresh"), j \in Sent(call, "retry") : i < j

\* What holds instead of C25: fetchWithRefreshRetry and a direct call of
\* refreshAndRetry are as the claim says; refreshAndRetryRequest sends the
\* refresh request to its retry URL with its retry options, and the retry
\* to its refresh URL with its refresh options.
C25_ProviderSwapsArguments ==
    \A c \in Calls :
        LET call == calls[c]
            given == CallerRequest(call)
        IN  /\ call.op \in {"fetchWithRefreshRetry", "refreshAndRetry"}
               => /\ \A i \in Sent(call, "refresh") : RefreshAsGiven(call, i)
                  /\ \A j \in Sent(call, "retry") : RetryAsGiven(call, j)
            /\ call.op = "refreshAndRetryRequest"
               => /\ \A i \in Sent(call, "refresh") :
                       /\ call.log[i].url = given.retryUrl
                       /\ call.log[i].method = IF given.retryOptions.method # Absent
                                               THEN given.retryOptions.method
                                               ELSE "POST"
                  /\ \A j \in Sent(call, "retry") :
                       /\ call.log[j].url = given.refreshUrl
                       /\ call.log[j].method = given.refreshOptions.method
                       /\ call.log[j].body = given.refreshOptions.body
            /\ \A i \in Sent(call, "refresh"), j \in Sent(call, "retry") : i < j

\* refreshAndRetryRequest has sent both of its requests.
C25_WitnessProvider ==
    \E c \in Calls :
        /\ calls[c].op = "refreshAndRetryRequest"
        /\ Sent(calls[c], "refresh") # {}
        /\ Sent(calls[c], "retry") # {}

\* ------------------------------------------------------------------------
\* What the code takes from the refresh response of request i of the call.
RefreshTaken(call, i) ==
    RefreshOutcome(call.log[i].response, call.refreshOptions.responseType,
                   OperationTokenConfig(call))

\* The refresh of the call is over: refresh has returned, or the
\* middleware has.
RefreshOver(call) ==
    IF call.op = "refreshTokenMiddleware" THEN Done(call) ELSE RefreshReturned(call)

C26_WitnessMiddleware ==
    \E c \in Calls :
        LET call == calls[c]
        IN  /\ call.op = "refreshTokenMiddleware"
            /\ Done(call)
            /\ Sent(call, "refresh") = {1}
            /\ RefreshTaken(call, 1).kind = "tokens"
            /\ Falsy(RefreshTaken(call, 1).tokens.refresh)
            /\ store[OperationTokenConfig(call).refreshTokenName] = "R1"

\* ------------------------------------------------------------------------
\* The call is under way: made, and its caller has no result yet.
Pending(call) == call.pc \notin {"idle", "done"}

\* C27: every call of fetchWithRefreshRetry, refreshAndRetry and
\* refreshAndRetryRequest resolves exactly once, and resolves eventually
\* when every transport call and store access it makes settles: the promise
\* of refreshAndRetryRequest is resolved once when the call is done and not
\* before, a result is never replaced, and no call stays pending.
C27_ResolvesOnce ==
    /\ [](\A c \in Calls :
            /\ Len(calls[c].resolved) <= 1
            /\ calls[c].op = "refreshAndRetryRequest"
                 => (Done(calls[c]) <=> Len(calls[c].resolved) = 1)
            /\ (Done(calls[c]) /\ calls[c].op # "refreshAndRetryRequest")
                 => "success" \in DOMAIN calls[c].result)
    /\ [][\A c \in Calls :
            Done(calls[c]) => calls'[c] = calls[c] \/ calls'[c] = Idle]_vars
    /\ \A c \in Calls : Pending(calls[c]) ~> Done(calls[c])

\* refreshAndRetryRequest has resolved its promise with null after the
\* refresh failed.
C27_Witness ==
    \E c \in Calls :
        LET call == calls[c]
        IN  /\ call.op = "refreshAndRetryRequest"
            /\ Done(call)
            /\ Sent(call, "refresh") # {}
            /\ call.result.success = FALSE
            /\ call.resolved = <<Null>>

\* refreshAndRetryRequest has resolved its promise after the server action
\* threw.
C27_WitnessRejected ==
    \E c \in Calls :
        /\ calls[c].op = "refreshAndRetryRequest"
        /\ Done(calls[c])
        /\ calls[c].exc = "action"
        /\ calls[c].resolved = <<Null>>

\* ------------------------------------------------------------------------
\* The token names the protected requests of the call go by: retry's own
\* when it is called directly, those of the refresh options otherwise.
ProtectedConfig(call) ==
    IF call.op = "retry" THEN TokenConfig(call.options.tokenNames) ELSE RefreshConfig(call)

\* In this step call c hands a request of this kind to fetch.
Issues(c, kind) ==
    /\ Len(calls'[c].log) = Len(calls[c].log) + 1
    /\ calls'[c].log[Len(calls'[c].log)].kind = kind

\* The Authorization header of the request call c issues in this step.
IssuedAuthorization(c) == calls'[c].log[Len(calls'[c].log)].headers.Authorization

\* The Authorization header made of the access token in the store as the
\* step begins.
StoredAuthorization(c) ==
    LET tokenConfig == ProtectedConfig(calls'[c])
    IN  AuthHeader(tokenConfig, store[tokenConfig.accessTokenName])

\* C28: every protected request, the initial request of
\* fetchWithRefreshRetry as well as the retry, carries the access token
\* that is in the store at the moment the request is issued, never a value
\* captured earlier.
C28_StoredTokenSent ==
    [][\A c \in Calls :
          (Issues(c, "initial") \/ Issues(c, "retry"))
          => IssuedAuthorization(c) = StoredAuthorization(c)]_vars

\* C28 as the code has it: the retry carries the access token in the store
\* at the moment it is issued or, when none is stored, the Authorization
\* header of the caller's options; the initial request of
\* fetchWithRefreshRetry carries the Authorization header of the caller's
\* options, whatever the store holds.
C28_OnlyRetryReadsStore ==
    [][\A c \in Calls :
          /\ Issues(c, "initial")
               => IssuedAuthorization(c) = calls'[c].options.headers.Authorization
          /\ Issues(c, "retry")
               => IssuedAuthorization(c) =
                    IF StoredAuthorization(c) # NoHeader THEN StoredAuthorization(c)
                    ELSE calls'[c].options.headers.Authorization]_vars

\* fetchWithRefreshRetry has sent its initial request without an
\* Authorization header while an access token was stored, and its retry
\* with the token stored by then.
C28_Witness ==
    \E c \in Calls :
        LET call == calls[c]
        IN  /\ call.op = "fetchWithRefreshRetry"
            /\ ~Falsy(call.storeAtCall[ProtectedConfig(call).accessTokenName])
            /\ call.log[1].headers.Authorization = NoHeader
            /\ Sent(call, "retry") # {}
            /\ \A j \in Sent(call, "retry") :
                 call.log[j].headers.Authorization
                    = <<ProtectedConfig(call).authHeaderFormat,
                        store[ProtectedConfig(call).accessTokenName]>>

\* retry, called with no access token stored, has sent the Authorization
\* header of its caller's options.
C28_WitnessFallback ==
    \E c \in Calls :
        LET call == calls[c]
        IN  /\ call.op = "retry"
            /\ Falsy(call.storeAtCall[ProtectedConfig(call).accessTokenName])
            /\ Sent(call, "retry") # {}
            /\ call.log[1].headers.Authorization = <<"Bearer", "A1">>

\* ------------------------------------------------------------------------
\* The call found its access token expired while the store held a refresh
\* token, and its refresh request was answered by the endpoint.
RefreshAnswered(call) ==
    /\ call.op \in {"fetchWithRefreshRetry", "refreshAndRetry"}
    /\ Done(call)
    /\ ~Falsy(call.storeAtCall["refreshToken"])
    /\ Sent(call, "refresh") # {}
    /\ \A i \in Sent(call, "refresh") : IsResponse(call.log[i].response)

\* The call ended with its request retried under an access token the
\* endpoint issued for it or for a later caller.
RetriedFresh(call) ==
    /\ call.refreshResult.success = TRUE
    /\ Sent(call, "retry") # {}
    /\ \A j \in Sent(call, "retry") :
         \E token \in DOMAIN Rotation :
            call.log[j].headers.Authorization = <<"Bearer", Rotation[token].accessToken>>

\* C29: with a refresh endpoint that rotates the refresh token, when
\* several calls find the access token expired while the store holds a
\* valid refresh token, none of them ends in a refresh-rejected failure:
\* every such caller ends with its request retried under a fresh access
\* token.
C29_NoneRejected ==
    \A c \in Calls : RefreshAnswered(calls[c]) => RetriedFresh(calls[c])

\* C29 as the code has it: every caller sends its own refresh request with
\* the refresh token it read.  Of the callers that sent the same refresh
\* token the endpoint accepts one, and that one ends with its request
\* retried under a fresh access token; every other ends with refresh's
\* failure for the 403, "Token refresh failed", and without a retry.
C29_OneAcceptedPerToken ==
    /\ \A c \in Calls :
          RefreshAnswered(calls[c])
          => \/ RetriedFresh(calls[c])
             \/ /\ calls[c].result = RefreshRejected(403)
                /\ Sent(calls[c], "retry") = {}
                /\ \E d \in Calls \ {c} : \E i \in Sent(calls[c], "refresh") :
                      \E j \in Sent(calls[d], "refresh") :
                         /\ SentRefreshToken(calls[d], j) = SentRefreshToken(calls[c], i)
                         /\ IsResponse(calls[d].log[j].response)
                         /\ Ok(calls[d].log[j].response.status)
    /\ \A c, d \in Calls :
          (c # d /\ RefreshAnswered(calls[c]) /\ RefreshAnswered(calls[d])
                 /\ \E i \in Sent(calls[c], "refresh"), j \in Sent(calls[d], "refresh") :
                       SentRefreshToken(calls[c], i) = SentRefreshToken(calls[d], j))
          => ~(RetriedFresh(calls[c]) /\ RetriedFresh(calls[d]))

\* Two calls sent the refresh token "R1"; one was retried under "A2", the
\* other ended with "Token refresh failed".
C29_Witness ==
    \E c, d \in Calls :
        /\ c # d
        /\ RefreshAnswered(calls[c]) /\ RefreshAnswered(calls[d])
        /\ \E i \in Sent(calls[c], "refresh") : SentRefreshToken(calls[c], i) = "R1"
        /\ RetriedFresh(calls[c])
        /\ calls[d].result = RefreshRejected(403)
        /\ \E i \in Sent(calls[d], "refresh") : SentRefreshToken(calls[d], i) = "R1"

\* ------------------------------------------------------------------------
\* The Authorization header a retry builds from the token stored under
\* `name`: the header of the caller's options when nothing is stored.
AuthorizationFrom(call, name) ==
    IF ~Falsy(store[name])
    THEN <<IF call.op = "retry136" THEN "Bearer"
           ELSE ProtectedConfig(call).authHeaderFormat, store[name]>>
    ELSE call.options.headers.Authorization

\* C30: the Authorization header of every retried request is built from
\* the value stored under the access-token name; the refresh token value
\* is never sent as the Authorization credential of a protected request.
C30_AccessTokenAuthorizes ==
    \A c \in Calls :
        LET call == calls[c]
        IN  \A j \in Sent(call, "retry") :
              /\ call.log[j].headers.Authorization
                    = AuthorizationFrom(call, ProtectedConfig(call).accessTokenName)
              /\ ~Falsy(store[ProtectedConfig(call).refreshTokenName])
                    => call.log[j].headers.Authorization
                          # <<"Bearer", store[ProtectedConfig(call).refreshTokenName]>>

\* What holds instead of C30: the first retry, called directly or by
\* refreshAndRetry, builds the header from the value stored under the
\* access-token name; the second retry builds it from the value of the
\* "refreshToken" cookie.
C30_SecondRetrySendsRefreshToken ==
    \A c \in Calls :
        LET call == calls[c]
        IN  \A j \in Sent(call, "retry") :
              call.log[j].headers.Authorization
                 = AuthorizationFrom(call, IF call.op = "retry136" THEN "refreshToken"
                                           ELSE ProtectedConfig(call).accessTokenName)

\* The second retry has sent "Bearer R1" while "A1" was the access token.
C30_WitnessRefreshTokenSent ==
    \E c \in Calls :
        LET call == calls[c]
        IN  /\ call.op = "retry136"
            /\ store["accessToken"] = "A1"
            /\ store["refreshToken"] = "R1"
            /\ Sent(call, "retry") = {1}
            /\ call.log[1].headers.Authorization = <<"Bearer", "R1">>

\* ------------------------------------------------------------------------
\* C31: for every combination of token names in the request options and in
\* the refresh options, the cookie name under which refresh stores the new
\* access token is the one the following retry of refreshAndRetry reads the
\* access token from: once the retry is sent, the store holds the new
\* access token under the name of the refresh options and the retry
\* carries that token.
C31_SameCookieName ==
    \A c \in Calls :
        LET call == calls[c]
            tokenConfig == RefreshConfig(call)
        IN  call.op \in {"refreshAndRetry", "fetchWithRefreshRetry"}
            => \A j \in Sent(call, "retry") :
                 /\ ~Falsy(call.newAccessToken)
                 /\ store[tokenConfig.accessTokenName] = call.newAccessToken
                 /\ call.log[j].headers.Authorization
                       = <<tokenConfig.authHeaderFormat, call.newAccessToken>>

\* refreshAndRetry has sent its retry when the request options name the
\* access token "jwt" and the refresh options leave it "accessToken".
C31_Witness ==
    \E c \in Calls :
        LET call == calls[c]
        IN  /\ call.op = "refreshAndRetry"
            /\ TokenConfig(call.options.tokenNames).accessTokenName = "jwt"
            /\ RefreshConfig(call).accessTokenName = "accessToken"
            /\ Sent(call, "retry") # {}

\* ------------------------------------------------------------------------
\* The token is a JWT whose exp claim is not before now.
ValidAt(token, now) ==
    LET payload == JwtPayload(token)
    IN  /\ payload # Unparseable
        /\ "exp" \in DOMAIN payload
        /\ payload.exp >= now

\* The access cookie of the inbound request holds a token that is not
\* expired: at the time the call read the clock, or at one of the times
\* when it read none.
AccessCookieValid(call) ==
    LET token == InboundCookie(call, InboundNames(call).accessToken)
    IN  /\ ~Falsy(token)
        /\ IF call.op = "refreshTokenMiddleware001"
           THEN ValidAt(token, call.now)
           ELSE \E now \in Times : ValidAt(token, now)

\* The three kinds of response: the request passes through and no cookie
\* is touched; it passes through with the access token the refresh
\* endpoint issued in the access cookie; it is redirected to the login path
\* and neither credential cookie is left.
PassedUnmodified(call) ==
    /\ call.result = MiddlewareNext
    /\ store = call.storeAtCall

PassedRefreshed(call) ==
    /\ call.result = MiddlewareNext
    /\ Sent(call, "refresh") # {}
    /\ ~Falsy(call.newAccessToken)
    /\ store[InboundNames(call).accessToken] = call.newAccessToken

\* C32: refreshTokenMiddleware issues no refresh request and returns a
\* pass-through response with no cookie set or deleted whenever the path is
\* not protected, is the login path, or the access cookie holds a token
\* that is not expired; and every response it returns is an unmodified
\* pass-through, a pass-through carrying refreshed credential cookies, or a
\* redirect to the login path with both credential cookies cleared.
C32_ThreeKindsOfResponse ==
    \A c \in Calls :
        LET call == calls[c]
        IN  (call.op \in Middlewares /\ Done(call))
            => /\ (~Guarded(call) \/ AccessCookieValid(call))
                    => (call.log = <<>> /\ PassedUnmodified(call))
               /\ \/ PassedUnmodified(call) /\ call.log = <<>>
                  \/ PassedRefreshed(call)
                  \/ RedirectedAndCleared(call)

\* What holds instead of C32: refreshTokenMiddleware.ts is as the claim
\* says.  The part_001 variant has two more responses: a pass-through
\* whose access cookie is set to an empty value, when the refresh endpoint
\* answers 2xx without an accessToken, and, configured with an empty
\* refresh-token name, a redirect that clears nothing, whatever the access
\* cookie holds.
C32_Part001HasTwoMore ==
    \A c \in Calls :
        LET call == calls[c]
            emptyName == /\ call.op = "refreshTokenMiddleware001"
                         /\ Falsy(InboundNames(call).refreshToken)
        IN  (call.op \in Middlewares /\ Done(call))
            => /\ (~Guarded(call) \/ (AccessCookieValid(call) /\ ~emptyName))
                    => (call.log = <<>> /\ PassedUnmodified(call))
               /\ \/ PassedUnmodified(call) /\ call.log = <<>>
                  \/ PassedRefreshed(call)
                  \/ RedirectedAndCleared(call)
                  \/ /\ call.op = "refreshTokenMiddleware001"
                     /\ call.result = MiddlewareNext
                     /\ Falsy(call.newAccessToken)
                     /\ store[InboundNames(call).accessToken] = ""
                  \/ /\ emptyName
                     /\ Guarded(call)
                     /\ call.result = MiddlewareRedirect(call.config)
                     /\ store = call.storeAtCall
                     /\ call.log = <<>>

\* The part_001 middleware has let a request through with an empty access
\* cookie after a 2xx answer without an access token.
C32_WitnessEmptyAccessCookie ==
    \E c \in Calls :
        LET call == calls[c]
        IN  /\ call.op = "refreshTokenMiddleware001"
            /\ Done(call)
            /\ call.config = NoConfig001
            /\ call.result = MiddlewareNext
            /\ Sent(call, "refresh") # {}
            /\ store["accessToken"] = ""

\* ------------------------------------------------------------------------
\* The part_001 middleware has put the access cookie of the call to its
\* expiry predicate (lines 165-167): the path is guarded, the refresh-token
\* name is not empty and the cookie is there.
PredicateAsked(call) ==
    /\ call.op = "refreshTokenMiddleware001"
    /\ call.pc # "idle"
    /\ Guarded(call)
    /\ ~Falsy(InboundNames(call).refreshToken)
    /\ ~Falsy(InboundCookie(call, InboundNames(call).accessToken))

\* The predicate reported the token as not expired: the request passed
\* through at once.  Otherwise the refresh request was sent.
ReportedNotExpired(call) == call.log = <<>> /\ call.result = MiddlewareNext

\* C33: the default expiry predicate reports a token as not expired only
\* when its payload decodes and carries an expiry claim that is not earlier
\* than the current time; a token that cannot be decoded or that carries no
\* expiry claim is reported as expired, so it triggers a refresh.
C33_NotExpiredOnlyWithExp ==
    \A c \in Calls :
        LET call == calls[c]
            token == InboundCookie(call, InboundNames(call).accessToken)
        IN  PredicateAsked(call)
            => /\ ReportedNotExpired(call) <=> ValidAt(token, call.now)
               /\ ~ValidAt(token, call.now) => Sent(call, "refresh") # {}

\* C33 as the code has it: a token is reported as not expired when its
\* payload decodes and its expiry claim, if it has one, is not earlier
\* than the current time; a token that cannot be decoded is reported as
\* expired, a token without an expiry claim never is.
C33_NoExpNeverExpires ==
    \A c \in Calls :
        LET call == calls[c]
            token == InboundCookie(call, InboundNames(call).accessToken)
            payload == JwtPayload(token)
            notExpired == /\ payload # Unparseable
                          /\ "exp" \in DOMAIN payload => payload.exp >= call.now
        IN  PredicateAsked(call)
            => /\ ReportedNotExpired(call) <=> notExpired
               /\ ~notExpired => Sent(call, "refresh") # {}

\* A token without an expiry claim has passed through without a refresh.
C33_Witness ==
    \E c \in Calls :
        /\ PredicateAsked(calls[c])
        /\ InboundCookie(calls[c], InboundNames(calls[c]).accessToken) = "A3"
        /\ ReportedNotExpired(calls[c])

\* A token whose expiry claim is the current time has passed through.
C33_WitnessBoundary ==
    \E c \in Calls :
        /\ PredicateAsked(calls[c])
        /\ InboundCookie(calls[c], InboundNames(calls[c]).accessToken) = "A1"
        /\ calls[c].now = 2
        /\ ReportedNotExpired(calls[c])

\* A token that cannot be decoded has triggered a refresh.
C33_WitnessUndecodable ==
    \E c \in Calls :
        /\ PredicateAsked(calls[c])
        /\ InboundCookie(calls[c], InboundNames(calls[c]).accessToken) = "opaque"
        /\ Sent(calls[c], "refresh") # {}

\* ------------------------------------------------------------------------
\* The runs of fetchData.
IsRun(call) == call.op = "fetchData"

\* C34: every run of fetchData sets hasInitialized to true when it ends, on
\* every path, and every run ends; a run calls refreshAndRetryRequest at
\* most once, and only after fetchAction resolved with a result whose
\* status is 401.
C34_RunSetsHasInitialized ==
    /\ [](\A c \in Calls :
            IsRun(calls[c]) =>
                /\ calls[c].invocations <= 1
                /\ calls[c].invocations = 1
                     => /\ "status" \in DOMAIN calls[c].action
                        /\ calls[c].action.status = 401)
    /\ [][\A c \in Calls :
            (IsRun(calls[c]) /\ Pending(calls[c]) /\ Done(calls'[c]))
                => client'.hasInitialized]_vars
    /\ \A c \in Calls : (IsRun(calls[c]) /\ Pending(calls[c])) ~> Done(calls[c])

\* A run has ended after fetchAction reported 401 and the refresh failed:
\* hasInitialized is true and there is no data.
C34_Witness ==
    \E c \in Calls :
        LET call == calls[c]
        IN  /\ IsRun(call)
            /\ Done(call)
            /\ call.invocations = 1
            /\ Sent(call, "refresh") # {}
            /\ call.result.success = FALSE
            /\ client.hasInitialized
            /\ client.data = Null

\* A run has ended after fetchAction reported 401 and the retry succeeded.
C34_WitnessRetried ==
    \E c \in Calls :
        LET call == calls[c]
        IN  /\ IsRun(call)
            /\ Done(call)
            /\ Sent(call, "retry") # {}
            /\ call.result.success
            /\ client.hasInitialized

\* A run has ended without a retryUrl, and a run after fetchAction threw.
C34_WitnessNoRetryUrl ==
    \E c \in Calls :
        LET call == calls[c]
        IN  /\ IsRun(call)
            /\ Done(call)
            /\ IsUnauthorized(call.action)
            /\ call.invocations = 0
            /\ client.hasInitialized

C34_WitnessThrew ==
    \E c \in Calls :
        /\ IsRun(calls[c])
        /\ Done(calls[c])
        /\ calls[c].exc = "fetchAction"
        /\ client.hasInitialized

\* A run of refetch is in flight after an earlier run refreshed:
\* hasInitialized, which that run had set, is false again.
C34_WitnessRefetch ==
    \E c \in Calls :
        /\ IsRun(calls[c])
        /\ calls[c].pc = "fetchData.action"
        /\ settled # {}
        /\ ~client.hasInitialized
====
